---- MODULE Spec2Model ----
(***************************************************************************)
(* TaskPilot: the task server (task_pilot_server.py) and the tool-call     *)
(* orchestration loops of its clients (client_llm.py,                      *)
(* client_llm_best_practices.py, client_openai.py).                        *)
(*                                                                         *)
(* Text is a sequence of chunks (each chunk a string); the empty text is   *)
(* <<>>, concatenation is \o, and " " is the whitespace chunk.  Python's   *)
(* None is an option record with isNone = TRUE.                            *)
(***************************************************************************)
EXTENDS Integers, Sequences, FiniteSets, TLC

VARIABLES
    \* ---- server process (task_pilot_server.py) ----
    STORE,          \* the in-memory store: an insertion-ordered dict
    doc,            \* the backing blob tasks.json
    uuids,          \* how many ids uuid4() has produced
    ret,            \* what the last tool call returned or raised
    saveFailed,     \* some save() of this process has raised
    suspended,      \* tasks of the add_task calls waiting in await ctx.info
    peer,           \* a second server process on the same blob, if one runs
    \* ---- client run (TaskPilotAgent.chat / MCPClient.process_query) ----
    variant,        \* which client file runs
    max_tool_loops, \* the cap given to chat()
    messages,       \* the history
    msg,            \* the last response message of the model
    pc,             \* where the run is
    loops,          \* tool phases started
    tcIdx,          \* next request of msg.tool_calls to execute
    tool_results_msgs, \* client_llm's pending results of the phase
    modelCalls,     \* completions requested so far
    invoked,        \* the tool invocations made, in order
    result          \* what the run returned or raised

serverVars == <<STORE, doc, uuids, ret, saveFailed, suspended, peer>>
clientVars == <<variant, max_tool_loops, messages, msg, pc, loops, tcIdx,
                tool_results_msgs, modelCalls, invoked, result>>
vars == <<STORE, doc, uuids, ret, saveFailed, suspended, peer, variant,
          max_tool_loops, messages, msg, pc, loops, tcIdx, tool_results_msgs,
          modelCalls, invoked, result>>

\* ------------------------------------------------------------------ bounds
\* Ids uuid4() may hand out in one process.
MaxTasks == 2
\* Tool requests in one model response.
MaxCalls == 2
\* Largest cap a run is configured with.
MaxToolLoops == 3
\* Content items in one tool result handed to a normaliser.
MaxItems == 3

\* ------------------------------------------------------------------- text
Range(s) == {s[i] : i \in DOMAIN s}

None == [isNone |-> TRUE, v |-> <<>>]
Some(x) == [isNone |-> FALSE, v |-> x]

\* str.strip(): whitespace chunks removed from both ends.
RECURSIVE LStrip(_)
LStrip(s) == IF s # <<>> /\ Head(s) = " " THEN LStrip(Tail(s)) ELSE s

RECURSIVE RStrip(_)
RStrip(s) ==
    IF s # <<>> /\ s[Len(s)] = " " THEN RStrip(SubSeq(s, 1, Len(s) - 1)) ELSE s

Strip(s) == RStrip(LStrip(s))

\* sep.join(parts)
RECURSIVE JoinFrom(_, _, _)
JoinFrom(sep, parts, i) ==
    IF i > Len(parts) THEN <<>>
    ELSE IF i = Len(parts) THEN parts[i]
    ELSE parts[i] \o sep \o JoinFrom(sep, parts, i + 1)

Join(sep, parts) == JoinFrom(sep, parts, 1)

\* ------------------------------------------------------- ordered dict
\* A dict is the sequence of its [key, val] entries in insertion order.
DictKeys(d) == {d[i].key : i \in DOMAIN d}
DictIndex(d, k) == CHOOSE i \in DOMAIN d : d[i].key = k
DictGet(d, k) == d[DictIndex(d, k)].val
\* d[k] = v: an existing key keeps its place.
DictSet(d, k, v) ==
    IF k \in DictKeys(d)
    THEN [d EXCEPT ![DictIndex(d, k)] = [key |-> k, val |-> v]]
    ELSE Append(d, [key |-> k, val |-> v])
\* del d[k]
DictDel(d, k) ==
    LET i == DictIndex(d, k)
    IN SubSeq(d, 1, i - 1) \o SubSeq(d, i + 1, Len(d))

\* ------------------------------------------------------------------- JSON
\* json.dumps of the store; the whitespace of indent=2 is not modelled.
Quote == "\""
JsonStr(s) == <<Quote>> \o s \o <<Quote>>
JsonBool(b) == <<IF b THEN "true" ELSE "false">>
JsonStrList(l) ==
    <<"[">> \o Join(<<",">>, [i \in DOMAIN l |-> JsonStr(l[i])]) \o <<"]">>

\* A serialisation that writes every task without its tags.
JsonTask_no_tags(t) ==
    <<"{">> \o JsonStr(<<"id">>) \o <<":">> \o JsonStr(t.id) \o <<",">>
            \o JsonStr(<<"title">>) \o <<":">> \o JsonStr(t.title) \o <<",">>
            \o JsonStr(<<"done">>) \o <<":">> \o JsonBool(t.done) \o <<",">>
            \o JsonStr(<<"tags">>) \o <<":">> \o <<"[", "]">>
    \o <<"}">>

JsonTask(t) ==
    <<"{">> \o JsonStr(<<"id">>) \o <<":">> \o JsonStr(t.id) \o <<",">>
            \o JsonStr(<<"title">>) \o <<":">> \o JsonStr(t.title) \o <<",">>
            \o JsonStr(<<"done">>) \o <<":">> \o JsonBool(t.done) \o <<",">>
            \o JsonStr(<<"tags">>) \o <<":">> \o JsonStrList(t.tags)
    \o <<"}">>
json_dumps(store) ==
    <<"{">> \o Join(<<",">>, [i \in DOMAIN store |->
                 JsonStr(store[i].key) \o <<":">> \o JsonTask(store[i].val)])
    \o <<"}">>

\* json.loads of such a document: a recursive-descent parse.  Each parser
\* returns [ok, val, next]: the value read at position i and the position
\* after it.
ParseFail == [ok |-> FALSE, val |-> <<>>, next |-> 0]

RECURSIVE ScanStr(_, _, _)
ScanStr(txt, i, acc) ==
    IF i > Len(txt) THEN ParseFail
    ELSE IF txt[i] = Quote THEN [ok |-> TRUE, val |-> acc, next |-> i + 1]
    ELSE ScanStr(txt, i + 1, Append(acc, txt[i]))

Expect(txt, i, chunk) == i \in DOMAIN txt /\ txt[i] = chunk

ParseStr(txt, i) ==
    IF Expect(txt, i, Quote) THEN ScanStr(txt, i + 1, <<>>) ELSE ParseFail

RECURSIVE ParseStrItems(_, _, _)
ParseStrItems(txt, i, acc) ==
    LET s == ParseStr(txt, i)
    IN IF ~s.ok THEN ParseFail
       ELSE IF Expect(txt, s.next, ",")
            THEN ParseStrItems(txt, s.next + 1, Append(acc, s.val))
       ELSE IF Expect(txt, s.next, "]")
            THEN [ok |-> TRUE, val |-> Append(acc, s.val), next |-> s.next + 1]
       ELSE ParseFail

ParseStrList(txt, i) ==
    IF ~Expect(txt, i, "[") THEN ParseFail
    ELSE IF Expect(txt, i + 1, "]")
         THEN [ok |-> TRUE, val |-> <<>>, next |-> i + 2]
    ELSE ParseStrItems(txt, i + 1, <<>>)

ParseBool(txt, i) ==
    IF Expect(txt, i, "true") THEN [ok |-> TRUE, val |-> TRUE, next |-> i + 1]
    ELSE IF Expect(txt, i, "false")
         THEN [ok |-> TRUE, val |-> FALSE, next |-> i + 1]
    ELSE ParseFail

\* "name": at position i; the position after the colon, or 0.
ParseKey(txt, i, name) ==
    LET k == ParseStr(txt, i)
    IN IF k.ok /\ k.val = <<name>> /\ Expect(txt, k.next, ":")
       THEN k.next + 1 ELSE 0

\* The members of a task object are read one after the other; `got` is what
\* has been read so far: [ok, vals, next].
NoMembers == [ok |-> FALSE, vals |-> <<>>, next |-> 0]

MemberRead(got, v) ==
    IF v.ok THEN [ok |-> TRUE, vals |-> Append(got.vals, v.val), next |-> v.next]
    ELSE NoMembers

MemberValue(txt, got, p, kind) ==
    IF p = 0 THEN NoMembers
    ELSE MemberRead(got, CASE kind = "str" -> ParseStr(txt, p)
                           [] kind = "bool" -> ParseBool(txt, p)
                           [] OTHER -> ParseStrList(txt, p))

\* After `got` and the chunk `sep`: "name": and a value of the kind.
Member(txt, got, sep, name, kind) ==
    IF got.ok /\ Expect(txt, got.next, sep)
    THEN MemberValue(txt, got, ParseKey(txt, got.next + 1, name), kind)
    ELSE NoMembers

TaskRead(txt, got) ==
    IF got.ok /\ Expect(txt, got.next, "}")
    THEN [ok |-> TRUE,
          val |-> [id |-> got.vals[1], title |-> got.vals[2],
                   done |-> got.vals[3], tags |-> got.vals[4]],
          next |-> got.next + 1]
    ELSE ParseFail

ParseTask(txt, i) ==
    TaskRead(txt,
        Member(txt,
            Member(txt,
                Member(txt,
                    Member(txt, [ok |-> TRUE, vals |-> <<>>, next |-> i],
                           "{", "id", "str"),
                    ",", "title", "str"),
                ",", "done", "bool"),
            ",", "tags", "list"))

\* The entries "key": task of the store object, up to its closing brace; a
\* key read twice keeps its last value.
RECURSIVE ParseEntries(_, _, _)
EntryRead(txt, acc, k, t) ==
    IF ~t.ok THEN ParseFail
    ELSE IF Expect(txt, t.next, ",")
         THEN ParseEntries(txt, t.next + 1, DictSet(acc, k.val, t.val))
    ELSE IF Expect(txt, t.next, "}")
         THEN [ok |-> TRUE, val |-> DictSet(acc, k.val, t.val),
               next |-> t.next + 1]
    ELSE ParseFail

EntryKey(txt, acc, k) ==
    IF k.ok /\ Expect(txt, k.next, ":")
    THEN EntryRead(txt, acc, k, ParseTask(txt, k.next + 1))
    ELSE ParseFail

ParseEntries(txt, i, acc) == EntryKey(txt, acc, ParseStr(txt, i))

json_loads(txt) ==
    LET r == IF ~Expect(txt, 1, "{") THEN ParseFail
             ELSE IF Expect(txt, 2, "}")
                  THEN [ok |-> TRUE, val |-> <<>>, next |-> 3]
             ELSE ParseEntries(txt, 2, <<>>)
    IN IF r.ok /\ r.next = Len(txt) + 1 THEN r ELSE ParseFail

\* ------------------------------------------------------------ persistence
\* The blob: absent, or present with a body.
NoBlob == [exists |-> FALSE, body |-> <<>>]
Blob(body) == [exists |-> TRUE, body |-> body]

\* Attempts each of load and save makes (retries: int = 3).
retries == 3

\* The blob service fails the first `fails` requests of a call and serves the
\* next one (HttpResponseError each time it fails).

\* An upload that gives up at its first failed attempt.
write_attempt_once(d, data, attempt, fails) ==
    IF attempt > fails
    THEN [raised |-> FALSE, doc |-> Blob(data), attempts |-> attempt]
    ELSE [raised |-> TRUE, doc |-> d, attempts |-> attempt]

RECURSIVE write_attempt(_, _, _, _)
write_attempt(d, data, attempt, fails) ==
    IF attempt > retries THEN [raised |-> FALSE, doc |-> d, attempts |-> 0]
    ELSE IF attempt > fails
         THEN [raised |-> FALSE, doc |-> Blob(data), attempts |-> attempt]
    ELSE IF attempt = retries
         THEN [raised |-> TRUE, doc |-> d, attempts |-> attempt]
    ELSE write_attempt(d, data, attempt + 1, fails)

write_blob_with_retry(d, store, fails) ==
    write_attempt(d, json_dumps(store), 1, fails)

RECURSIVE read_attempt(_, _, _)
read_attempt(d, attempt, fails) ==
    IF attempt > retries
    THEN [raised |-> FALSE, val |-> <<>>, exc |-> "None", attempts |-> 0]
    ELSE IF attempt > fails
         THEN IF ~d.exists
              THEN [raised |-> FALSE, val |-> <<>>, exc |-> "",
                    attempts |-> attempt]
              ELSE LET j == json_loads(d.body)
                   IN IF j.ok THEN [raised |-> FALSE, val |-> j.val, exc |-> "",
                                    attempts |-> attempt]
                      ELSE [raised |-> TRUE, val |-> <<>>,
                            exc |-> "JSONDecodeError", attempts |-> attempt]
    ELSE IF attempt = retries
         THEN [raised |-> TRUE, val |-> <<>>, exc |-> "HttpResponseError",
               attempts |-> attempt]
    ELSE read_attempt(d, attempt + 1, fails)

read_blob_with_retry(d, fails) == read_attempt(d, 1, fails)

load(d, fails) == read_blob_with_retry(d, fails)

\* A save that uploads the store together with the entries the blob holds
\* under other keys.
save_merging(d, store, fails) ==
    LET j == IF d.exists THEN json_loads(d.body)
             ELSE [ok |-> TRUE, val |-> <<>>]
        kept == IF j.ok
                THEN SelectSeq(j.val, LAMBDA e : e.key \notin DictKeys(store))
                ELSE <<>>
    IN write_blob_with_retry(d, store \o kept, fails)

save(d, store, fails) == write_blob_with_retry(d, store, fails)


\* time.sleep(backoff * attempt) after each failed attempt but the last: the
\* waits, in tenths of a second, of a call with `n` attempts allowed whose
\* first `fails` requests fail.
backoff == 5
sleeps(n, fails) ==
    [attempt \in 1..(IF fails < n THEN fails ELSE n - 1) |-> backoff * attempt]


\* The challenge server's read_blob_with_retry: `except Exception` takes a
\* blob that does not exist and a body that is not JSON for failed attempts
\* like any other, and they fail again at each attempt.
RECURSIVE challenge_read_attempt(_, _, _)
challenge_read_attempt(d, attempt, fails) ==
    IF attempt > retries
    THEN [raised |-> FALSE, val |-> <<>>, exc |-> "None", attempts |-> 0]
    ELSE IF attempt > fails /\ d.exists /\ json_loads(d.body).ok
         THEN [raised |-> FALSE, val |-> json_loads(d.body).val, exc |-> "",
               attempts |-> attempt]
    ELSE IF attempt = retries
         THEN [raised |-> TRUE, val |-> <<>>,
               exc |-> IF attempt <= fails THEN "HttpResponseError"
                       ELSE IF ~d.exists THEN "ResourceNotFoundError"
                       ELSE "JSONDecodeError",
               attempts |-> attempt]
    ELSE challenge_read_attempt(d, attempt + 1, fails)

challenge_load(d, fails) == challenge_read_attempt(d, 1, fails)

\* ------------------------------------------------------------- data model
\* uuid4().hex: the n-th id of the process, unlike every other id.
\* An id generator that hands out the same id again.
uuid4_repeating(n) == <<"uuid", "0">>
uuid4(n) == <<"uuid", ToString(n)>>

Task(id, title, done, tags) ==
    [id |-> id, title |-> title, done |-> done, tags |-> tags]

\* What a tool call gives back: the function's value or the exception.
Returned(kind, tasks, count) ==
    [status |-> "ok", exc |-> "", msg |-> <<>>, kind |-> kind,
     tasks |-> tasks, count |-> count]
Raised(exc, text) ==
    [status |-> "raise", exc |-> exc, msg |-> text, kind |-> "none",
     tasks |-> <<>>, count |-> 0]
NoCall == Returned("none", <<>>, 0)

\* The state a tool leaves: the store, the blob, the ids used, its result,
\* whether its save() raised, and how many times it called save().
After(store, d, n, r, failed, saves) ==
    [STORE |-> store, doc |-> d, uuids |-> n, ret |-> r, saveFailed |-> failed,
     saves |-> saves]

StorageError == Raised("HttpResponseError", <<"blob write failed">>)

\* ------------------------------------------------------------------ tools
\* add_task that keeps every tag it is given.
add_task_all_tags(store, d, n, title, tags, fails) ==
    LET t == Strip(title)
        task == Task(uuid4(n), t, FALSE, IF tags.isNone THEN <<>> ELSE tags.v)
        store1 == DictSet(store, task.id, task)
        w == save(d, store1, fails)
    IN IF t = <<>>
       THEN After(store, d, n,
                  Raised("ValueError", <<"Title cannot be empty.">>), FALSE, 0)
       ELSE IF w.raised
            THEN After(store1, w.doc, n + 1, StorageError, TRUE, 1)
       ELSE After(store1, w.doc, n + 1, Returned("task", <<task>>, 0), FALSE, 1)

\* add_task without the check of the title.
add_task_unchecked(store, d, n, title, tags, fails) ==
    LET task == Task(uuid4(n), Strip(title), FALSE,
                     SelectSeq(IF tags.isNone THEN <<>> ELSE tags.v,
                               LAMBDA x : Strip(x) # <<>>))
        store1 == DictSet(store, task.id, task)
        w == save(d, store1, fails)
    IN IF w.raised THEN After(store1, w.doc, n + 1, StorageError, TRUE, 1)
       ELSE After(store1, w.doc, n + 1, Returned("task", <<task>>, 0), FALSE, 1)

add_task(store, d, n, title, tags, fails) ==
    LET t == Strip(title)
        kept == SelectSeq(IF tags.isNone THEN <<>> ELSE tags.v,
                          LAMBDA x : Strip(x) # <<>>)
        task == Task(uuid4(n), t, FALSE, kept)
        store1 == DictSet(store, task.id, task)
        w == save(d, store1, fails)
    IN IF t = <<>>
       THEN After(store, d, n,
                  Raised("ValueError", <<"Title cannot be empty.">>), FALSE, 0)
       ELSE IF w.raised
            THEN After(store1, w.doc, n + 1, StorageError, TRUE, 1)
       ELSE After(store1, w.doc, n + 1, Returned("task", <<task>>, 0), FALSE, 1)


\* list_tasks that returns every task whatever include_done is.
list_tasks_unfiltered(store, d, n, include_done) ==
    After(store, d, n,
          Returned("tasks", [i \in DOMAIN store |-> store[i].val], 0), FALSE, 0)

list_tasks(store, d, n, include_done) ==
    LET tasks == [i \in DOMAIN store |-> store[i].val]
        shown == IF include_done THEN tasks
                 ELSE SelectSeq(tasks, LAMBDA t : ~t.done)
    IN After(store, d, n, Returned("tasks", shown, 0), FALSE, 0)


\* The challenge server's list_tasks with a default that leaves the done
\* tasks out.
challenge_list_tasks_open_only(store, d, n, include_done) ==
    list_tasks(store, d, n,
               IF include_done.isNone THEN FALSE ELSE include_done.v)

\* The challenge server's list_tasks(include_done: bool = True), called with
\* the argument given or left out.
challenge_list_tasks(store, d, n, include_done) ==
    list_tasks(store, d, n,
               IF include_done.isNone THEN TRUE ELSE include_done.v)

\* complete_task that updates STORE and returns without save(STORE).
complete_task_unsaved(store, d, n, task_id, fails) ==
    IF task_id \notin DictKeys(store)
    THEN After(store, d, n,
               Raised("ValueError", <<"Task not found: ">> \o task_id), FALSE, 0)
    ELSE LET t == [DictGet(store, task_id) EXCEPT !.done = TRUE]
         IN After(DictSet(store, t.id, t), d, n,
                  Returned("task", <<t>>, 0), FALSE, 0)


\* complete_task that refuses a task that is already done.
complete_task_once(store, d, n, task_id, fails) ==
    IF task_id \notin DictKeys(store)
    THEN After(store, d, n,
               Raised("ValueError", <<"Task not found: ">> \o task_id), FALSE, 0)
    ELSE IF DictGet(store, task_id).done
    THEN After(store, d, n,
               Raised("ValueError", <<"Task already done: ">> \o task_id),
               FALSE, 0)
    ELSE LET t == [DictGet(store, task_id) EXCEPT !.done = TRUE]
             store1 == DictSet(store, t.id, t)
             w == save(d, store1, fails)
         IN IF w.raised THEN After(store1, w.doc, n, StorageError, TRUE, 1)
            ELSE After(store1, w.doc, n, Returned("task", <<t>>, 0), FALSE, 1)


\* complete_task that uploads the store before it refuses an unknown id.
complete_task_saves_first(store, d, n, task_id, fails) ==
    LET w0 == save(d, store, fails)
    IN IF task_id \notin DictKeys(store)
       THEN After(store, w0.doc, n,
                  Raised("ValueError", <<"Task not found: ">> \o task_id),
                  FALSE, 1)
       ELSE LET t == [DictGet(store, task_id) EXCEPT !.done = TRUE]
                store1 == DictSet(store, t.id, t)
                w == save(d, store1, fails)
            IN IF w.raised THEN After(store1, w.doc, n, StorageError, TRUE, 1)
               ELSE After(store1, w.doc, n, Returned("task", <<t>>, 0),
                          FALSE, 1)


\* complete_task that builds the completed task anew, with an id of its own.
complete_task_new_id(store, d, n, task_id, fails) ==
    IF task_id \notin DictKeys(store)
    THEN After(store, d, n,
               Raised("ValueError", <<"Task not found: ">> \o task_id), FALSE, 0)
    ELSE LET old == DictGet(store, task_id)
             t == Task(uuid4(n), old.title, TRUE, old.tags)
             store1 == DictSet(store, task_id, t)
             w == save(d, store1, fails)
         IN IF w.raised THEN After(store1, w.doc, n, StorageError, TRUE, 1)
            ELSE After(store1, w.doc, n, Returned("task", <<t>>, 0), FALSE, 1)


\* complete_task that builds the completed task from id and title alone.
complete_task_resets_tags(store, d, n, task_id, fails) ==
    IF task_id \notin DictKeys(store)
    THEN After(store, d, n,
               Raised("ValueError", <<"Task not found: ">> \o task_id), FALSE, 0)
    ELSE LET old == DictGet(store, task_id)
             t == Task(old.id, old.title, TRUE, <<>>)
             store1 == DictSet(store, t.id, t)
             w == save(d, store1, fails)
         IN IF w.raised THEN After(store1, w.doc, n, StorageError, TRUE, 1)
            ELSE After(store1, w.doc, n, Returned("task", <<t>>, 0), FALSE, 1)

complete_task(store, d, n, task_id, fails) ==
    IF task_id \notin DictKeys(store)
    THEN After(store, d, n,
               Raised("ValueError", <<"Task not found: ">> \o task_id), FALSE, 0)
    ELSE LET t == [DictGet(store, task_id) EXCEPT !.done = TRUE]
             store1 == DictSet(store, t.id, t)
             w == save(d, store1, fails)
         IN IF w.raised THEN After(store1, w.doc, n, StorageError, TRUE, 1)
            ELSE After(store1, w.doc, n, Returned("task", <<t>>, 0), FALSE, 1)

\* for tid in list(STORE.keys()): if STORE[tid].get("done"): del STORE[tid]
RECURSIVE clear_loop(_, _)
clear_loop(store, keys) ==
    IF keys = <<>> THEN store
    ELSE IF DictGet(store, Head(keys)).done
         THEN clear_loop(DictDel(store, Head(keys)), Tail(keys))
    ELSE clear_loop(store, Tail(keys))


\* clear_completed that stops at the first completed task it deleted.
clear_completed_first(store, d, n, fails) ==
    LET done == {i \in DOMAIN store : store[i].val.done}
        first == CHOOSE i \in done : \A j \in done : i <= j
        store1 == IF done = {} THEN store
                  ELSE SubSeq(store, 1, first - 1)
                           \o SubSeq(store, first + 1, Len(store))
        removed == Len(store) - Len(store1)
        w == save(d, store1, fails)
    IN IF removed = 0
       THEN After(store, d, n, Returned("count", <<>>, 0), FALSE, 0)
       ELSE IF w.raised THEN After(store1, w.doc, n, StorageError, TRUE, 1)
       ELSE After(store1, w.doc, n, Returned("count", <<>>, removed), FALSE, 1)


\* clear_completed that calls save(STORE) whether it removed a task or not.
clear_completed_always_saves(store, d, n, fails) ==
    LET store1 == clear_loop(store, [i \in DOMAIN store |-> store[i].key])
        removed == Len(store) - Len(store1)
        w == save(d, store1, fails)
    IN IF w.raised THEN After(store1, w.doc, n, StorageError, TRUE, 1)
       ELSE After(store1, w.doc, n, Returned("count", <<>>, removed), FALSE, 1)

clear_completed(store, d, n, fails) ==
    LET store1 == clear_loop(store, [i \in DOMAIN store |-> store[i].key])
        removed == Len(store) - Len(store1)
        w == save(d, store1, fails)
    IN IF removed = 0
       THEN After(store, d, n, Returned("count", <<>>, 0), FALSE, 0)
       ELSE IF w.raised THEN After(store1, w.doc, n, StorageError, TRUE, 1)
       ELSE After(store1, w.doc, n, Returned("count", <<>>, removed), FALSE, 1)


\* ------------------------------------------------------------- resources
\* What reading a resource gives: the text of its payload.
ResourceText(text) ==
    [status |-> "ok", exc |-> "", msg |-> text, kind |-> "resource",
     tasks |-> <<>>, count |-> 0]

\* json.dumps({"error": "not found", "id": task_id})
NotFoundPayload(task_id) ==
    <<"{">> \o JsonStr(<<"error">>) \o <<":">> \o JsonStr(<<"not found">>)
            \o <<",">> \o JsonStr(<<"id">>) \o <<":">> \o JsonStr(task_id)
    \o <<"}">>

\* A task://{task_id} that raises for an id it does not find, as complete_task
\* does.
get_task_raising(store, d, n, task_id) ==
    IF task_id \notin DictKeys(store)
    THEN After(store, d, n,
               Raised("ValueError", <<"Task not found: ">> \o task_id), FALSE, 0)
    ELSE After(store, d, n, ResourceText(JsonTask(DictGet(store, task_id))),
               FALSE, 0)

\* @mcp.resource("task://{task_id}")
get_task(store, d, n, task_id) ==
    IF task_id \notin DictKeys(store)
    THEN After(store, d, n, ResourceText(NotFoundPayload(task_id)), FALSE, 0)
    ELSE After(store, d, n, ResourceText(JsonTask(DictGet(store, task_id))),
               FALSE, 0)

\* ---------------------------------------------------- the server process
\* Inputs of the tool calls.
Titles == {<<>>, <<" ", " ">>, <<" ", "Record", " ">>}
TagArgs == {None, Some(<<<<"course">>, <<" ">>, <<>>, <<" ", "mcp">>>>)}
UnknownId == <<"nonexistent">>

\* Documents an earlier process may have left.
OldOpen == Task(<<"a1">>, <<"Old">>, FALSE, <<>>)
OldDone == Task(<<"b2">>, <<"Done">>, TRUE, <<<<"x">>>>)
InitialStores ==
    {<<>>,
     <<[key |-> OldOpen.id, val |-> OldOpen]>>,
     <<[key |-> OldDone.id, val |-> OldDone],
       [key |-> OldOpen.id, val |-> OldOpen]>>}
InitialDocs == {NoBlob} \cup {Blob(json_dumps(s)) : s \in InitialStores}

\* No client run: the client's variables at rest.
ClientIdle ==
    /\ variant = "none"
    /\ max_tool_loops = 0
    /\ messages = <<>>
    /\ msg = None
    /\ pc = "NoRun"
    /\ loops = 0
    /\ tcIdx = 0
    /\ tool_results_msgs = <<>>
    /\ modelCalls = 0
    /\ invoked = <<>>
    /\ result = None


\* The second process: not started, or running with a STORE of its own.
NoPeer == [running |-> FALSE, STORE |-> <<>>]
PeerWith(store) == [running |-> TRUE, STORE |-> store]

\* STORE = load() at import; the process starts only if load() returned.
ServerStart ==
    \E d \in InitialDocs, fails \in 0..retries :
        /\ ~load(d, fails).raised
        /\ doc = d
        /\ STORE = load(d, fails).val
        /\ uuids = 0
        /\ ret = NoCall
        /\ saveFailed = FALSE
        /\ suspended = {}
        /\ peer = NoPeer

ServerInit == ServerStart /\ ClientIdle

\* The state a tool call that ran to its end leaves becomes the state of the
\* process.
Becomes(after) ==
    /\ STORE' = after.STORE
    /\ doc' = after.doc
    /\ uuids' = after.uuids
    /\ ret' = after.ret
    /\ saveFailed' = (saveFailed \/ after.saveFailed)
    /\ suspended' = suspended
    /\ peer' = peer

CallAddTask ==
    \E title \in Titles, tags \in TagArgs, fails \in 0..retries :
        /\ uuids < MaxTasks
        /\ Becomes(add_task(STORE, doc, uuids, title, tags, fails))
        /\ UNCHANGED clientVars

CallListTasks ==
    \E include_done \in BOOLEAN :
        /\ Becomes(list_tasks(STORE, doc, uuids, include_done))
        /\ UNCHANGED clientVars

CallCompleteTask ==
    \E task_id \in DictKeys(STORE) \cup {UnknownId}, fails \in 0..retries :
        /\ Becomes(complete_task(STORE, doc, uuids, task_id, fails))
        /\ UNCHANGED clientVars

CallClearCompleted ==
    \E fails \in 0..retries :
        /\ Becomes(clear_completed(STORE, doc, uuids, fails))
        /\ UNCHANGED clientVars

ServerNext ==
    \/ CallAddTask
    \/ CallListTasks
    \/ CallCompleteTask
    \/ CallClearCompleted

ServerSpec == ServerInit /\ [][ServerNext]_vars

\* ------------------------------------- several invocations at one server
\* The server handles each request in a task of its own on one event loop
\* (mcp.streamable_http_app).  A tool written with def runs to its end
\* without giving way; add_task is async and gives way at await ctx.info,
\* after STORE[task.id] = ... and before save(STORE).

\* add_task up to await ctx.info: the title check, and the task put into STORE.
AddTaskBegin ==
    \E title \in Titles, tags \in TagArgs :
    \E a \in {add_task(STORE, doc, uuids, title, tags, 0)} :
        /\ uuids < MaxTasks
        /\ IF a.ret.status = "raise"
           THEN Becomes(a)
           ELSE /\ STORE' = a.STORE
                /\ uuids' = a.uuids
                /\ suspended' = suspended \cup {a.ret.tasks[1]}
                /\ UNCHANGED <<doc, ret, saveFailed, peer>>
        /\ UNCHANGED clientVars

\* add_task from await ctx.info on: save(STORE) of the store as it is now,
\* then return task.
AddTaskResume ==
    \E task \in suspended, fails \in 0..retries :
    \E w \in {save(doc, STORE, fails)} :
        /\ doc' = w.doc
        /\ ret' = (IF w.raised THEN StorageError
                   ELSE Returned("task", <<task>>, 0))
        /\ saveFailed' = (saveFailed \/ w.raised)
        /\ suspended' = suspended \ {task}
        /\ UNCHANGED <<STORE, uuids, peer>>
        /\ UNCHANGED clientVars

ConcurrentNext ==
    \/ AddTaskBegin
    \/ AddTaskResume
    \/ CallListTasks
    \/ CallCompleteTask
    \/ CallClearCompleted

ConcurrentSpec == ServerInit /\ [][ConcurrentNext]_vars



\* ------------------------------------ two server processes on one blob
\* Each /message request starts a server process of its own
\* (MCPClient.connect_to_server); a second request served meanwhile starts a
\* second one.  Both name the same blob; each has its own STORE.  The ids of
\* uuid4() differ across processes, so one count serves both.

\* The second process starts: STORE = load() of the blob as it is then.
PeerStart ==
    /\ ~peer.running
    /\ \E first \in {load(doc, 0)} :
          /\ ~first.raised
          /\ peer' = PeerWith(first.val)
    /\ UNCHANGED <<STORE, doc, uuids, ret, saveFailed, suspended>>
    /\ UNCHANGED clientVars

\* The state a tool call of the second process leaves.
PeerBecomes(after) ==
    /\ peer' = PeerWith(after.STORE)
    /\ doc' = after.doc
    /\ uuids' = after.uuids
    /\ ret' = after.ret
    /\ saveFailed' = (saveFailed \/ after.saveFailed)
    /\ UNCHANGED <<STORE, suspended>>

PeerAddTask ==
    \E title \in Titles, fails \in {0, retries} :
        /\ peer.running
        /\ uuids < MaxTasks
        /\ PeerBecomes(add_task(peer.STORE, doc, uuids, title, None, fails))
        /\ UNCHANGED clientVars

PeerCompleteTask ==
    \E task_id \in DictKeys(peer.STORE) \cup {UnknownId},
       fails \in {0, retries} :
        /\ peer.running
        /\ PeerBecomes(complete_task(peer.STORE, doc, uuids, task_id, fails))
        /\ UNCHANGED clientVars

\* The first process serves a request that adds tasks and clears the done
\* ones, the second one a request that adds tasks and completes tasks.
SharedNext ==
    \/ CallAddTask
    \/ CallClearCompleted
    \/ PeerStart
    \/ PeerAddTask
    \/ PeerCompleteTask

SharedSpec == ServerInit /\ [][SharedNext]_vars

\* --------------------------------------- the server with its resources
\* A client reads task://{task_id} between the tool calls.
ReadTask ==
    \E task_id \in DictKeys(STORE) \cup {UnknownId} :
        /\ Becomes(get_task(STORE, doc, uuids, task_id))
        /\ UNCHANGED clientVars

ResourceNext ==
    \/ CallAddTask
    \/ CallListTasks
    \/ CallCompleteTask
    \/ CallClearCompleted
    \/ ReadTask

ResourceSpec == ServerInit /\ [][ResourceNext]_vars

\* ------------------------------------------------- the MCP tool interface
\* The argument bag of a tools/call request: each key present or absent.
Args(title, tags, task_id, include_done) ==
    [title |-> title, tags |-> tags, task_id |-> task_id,
     include_done |-> include_done]
NoArgs == Args(None, None, None, [isNone |-> TRUE, v |-> FALSE])
Given(b) == [isNone |-> FALSE, v |-> b]

\* The tool the server runs for a request.  A missing required argument is
\* refused before the function runs, and so is an unknown name.
run_tool(name, args, store, d, n, fails) ==
    CASE name = "add_task" ->
            IF args.title.isNone
            THEN After(store, d, n,
                       Raised("ValidationError", <<"title: Field required">>),
                       FALSE, 0)
            ELSE add_task(store, d, n, args.title.v, args.tags, fails)
      [] name = "list_tasks" ->
            list_tasks(store, d, n,
                       IF args.include_done.isNone THEN TRUE
                       ELSE args.include_done.v)
      [] name = "complete_task" ->
            IF args.task_id.isNone
            THEN After(store, d, n,
                       Raised("ValidationError", <<"task_id: Field required">>),
                       FALSE, 0)
            ELSE complete_task(store, d, n, args.task_id.v, fails)
      [] name = "clear_completed" -> clear_completed(store, d, n, fails)
      [] OTHER ->
            After(store, d, n, Raised("ToolError", <<"Unknown tool">>), FALSE,
                  0)

\* One content item of a tool result.
TextContent(text) == [type |-> "text", text |-> text, json |-> <<>>]
JsonContent(value) == [type |-> "json", text |-> <<>>, json |-> value]

\* The text an exception is reported with.
ErrorText(name, r) == <<"Error executing tool ", name, ": ">> \o r.msg

\* The CallToolResult of a call: an exception becomes an error result with
\* the error text, a Task one text item, a list one item per element, a
\* count one item.
tool_result(name, r) ==
    IF r.status = "raise"
    THEN [isError |-> TRUE, content |-> <<TextContent(ErrorText(name, r))>>]
    ELSE [isError |-> FALSE,
          content |->
              IF r.kind = "count" THEN <<TextContent(<<ToString(r.count)>>)>>
              ELSE [i \in DOMAIN r.tasks |-> TextContent(JsonTask(r.tasks[i]))]]

\* session.call_tool(name, arguments): the state the tool leaves and the
\* result the client receives.
call_tool(name, args, store, d, n, fails) ==
    CHOOSE c \in {[after |-> after, result |-> tool_result(name, after.ret)] :
                     after \in {run_tool(name, args, store, d, n, fails)}} :
        TRUE

\* ---------------------------------------------------- result normalisers
\* json.dumps of a list of JSON values, each given by its text.
JsonArray(values) == <<"[">> \o Join(<<",">>, values) \o <<"]">>

\* client_llm._extract_text_or_json_as_text: the first json or text item.
RECURSIVE first_item_text(_)
first_item_text(content) ==
    IF content = <<>> THEN <<>>
    ELSE IF Head(content).type = "json" THEN Head(content).json
    ELSE IF Head(content).type = "text" THEN Head(content).text
    ELSE first_item_text(Tail(content))

\* client_llm_best_practices.extract_text_or_json_as_text

\* A normaliser that puts each item in front of the ones it has collected.
extract_text_or_json_as_text_reversed(content) ==
    LET js == SelectSeq(content, LAMBDA c : c.type = "json")
        ts == SelectSeq(content, LAMBDA c : c.type # "json" /\ c.type = "text")
        json_items == [i \in DOMAIN js |-> js[Len(js) + 1 - i].json]
        texts == [i \in DOMAIN ts |-> ts[Len(ts) + 1 - i].text]
    IN IF json_items # <<>> /\ texts = <<>>
       THEN IF Len(json_items) = 1 THEN json_items[1]
            ELSE JsonArray(json_items)
       ELSE IF texts # <<>> /\ json_items = <<>>
            THEN Join(<<"\n">>, texts)
       ELSE <<"{">> \o JsonStr(<<"json">>) \o <<":">> \o JsonArray(json_items)
                    \o <<",">> \o JsonStr(<<"text">>) \o <<":">>
                    \o JsonArray([i \in DOMAIN texts |-> JsonStr(texts[i])])
            \o <<"}">>

extract_text_or_json_as_text(content) ==
    LET js == SelectSeq(content, LAMBDA c : c.type = "json")
        ts == SelectSeq(content, LAMBDA c : c.type # "json" /\ c.type = "text")
        json_items == [i \in DOMAIN js |-> js[i].json]
        texts == [i \in DOMAIN ts |-> ts[i].text]
    IN IF json_items # <<>> /\ texts = <<>>
       THEN IF Len(json_items) = 1 THEN json_items[1]
            ELSE JsonArray(json_items)
       ELSE IF texts # <<>> /\ json_items = <<>>
            THEN Join(<<"\n">>, texts)
       ELSE <<"{">> \o JsonStr(<<"json">>) \o <<":">> \o JsonArray(json_items)
                    \o <<",">> \o JsonStr(<<"text">>) \o <<":">>
                    \o JsonArray([i \in DOMAIN texts |-> JsonStr(texts[i])])
            \o <<"}">>

\* ------------------------------------------------------------ the model
\* tc.function.arguments: None, or a text that is JSON or is not.
ArgsJson(a) ==
    LET e1 == IF a.title.isNone THEN <<>>
              ELSE <<JsonStr(<<"title">>) \o <<":">> \o JsonStr(a.title.v)>>
        e2 == IF a.tags.isNone THEN <<>>
              ELSE <<JsonStr(<<"tags">>) \o <<":">> \o JsonStrList(a.tags.v)>>
        e3 == IF a.task_id.isNone THEN <<>>
              ELSE <<JsonStr(<<"task_id">>) \o <<":">> \o JsonStr(a.task_id.v)>>
        e4 == IF a.include_done.isNone THEN <<>>
              ELSE <<JsonStr(<<"include_done">>) \o <<":">>
                       \o JsonBool(a.include_done.v)>>
    IN <<"{">> \o Join(<<",">>, e1 \o e2 \o e3 \o e4) \o <<"}">>
InvalidJson == <<"{", Quote, "title", Quote, ":">>

\* The argument bags the model writes.
ArgBags ==
    {NoArgs,
     Args(Some(<<" ", "Record", " ">>), Some(<<<<"course">>>>), None,
          NoArgs.include_done),
     Args(Some(<<" ">>), None, None, NoArgs.include_done),
     Args(None, None, Some(OldOpen.id), NoArgs.include_done),
     Args(None, None, None, Given(FALSE))}

\* json.loads(text): the bag the text is the JSON of, or JSONDecodeError.
json_loads_arguments(text) ==
    IF \E a \in ArgBags : ArgsJson(a) = text
    THEN [ok |-> TRUE, val |-> CHOOSE a \in ArgBags : ArgsJson(a) = text]
    ELSE [ok |-> FALSE, val |-> NoArgs]

\* The requests the model makes.  The first request of its first response is
\* any of these ...
Request(name, arguments) == [name |-> name, arguments |-> arguments]
WideRequests ==
    {Request("add_task", Some(ArgsJson(a))) :
        a \in {b \in ArgBags : ~b.title.isNone}}
    \cup {Request("complete_task", Some(ArgsJson(a))) :
        a \in {b \in ArgBags : ~b.task_id.isNone}}
    \cup {Request("complete_task", Some(InvalidJson)),
          Request("list_tasks", None)}
\* ... a request after the first of a response is one of these ...
FollowRequests ==
    {Request("add_task", Some(ArgsJson(Args(Some(<<" ">>), None, None,
                                            NoArgs.include_done)))),
     Request("list_tasks", Some(ArgsJson(Args(None, None, None,
                                              Given(FALSE)))))}
\* ... and a later response makes this one.
NarrowRequests ==
    {Request("list_tasks", Some(ArgsJson(Args(None, None, None,
                                              Given(FALSE)))))}

\* The responses' request lists of at most `most` requests.
Batches(first, rest, most) ==
    UNION {{b \in [1..k -> first \cup rest] :
                b[1] \in first /\ \A i \in 2..k : b[i] \in rest} :
           k \in 1..most}

AddCount(batch) == Cardinality({i \in DOMAIN batch : batch[i].name = "add_task"})

\* The call id the API gives the i-th request of the n-th response.
CallId(n, i) == <<"call_", ToString(n), "_", ToString(i)>>

ToolCalls(n, batch) ==
    [i \in DOMAIN batch |->
        [id |-> CallId(n, i), name |-> batch[i].name,
         arguments |-> batch[i].arguments]]

FinalText == <<"Here are your tasks.">>

\* The response messages the n-th completion may carry under tool_choice.
Responses(n, tool_choice, free) ==
    LET batches == IF n = 0
                   THEN Batches(WideRequests, FollowRequests, MaxCalls)
                   ELSE Batches(NarrowRequests, NarrowRequests, 1)
    IN {[content |-> c, tool_calls |-> None] : c \in {None, Some(FinalText)}}
       \cup IF tool_choice = "none" THEN {}
            ELSE {[content |-> c, tool_calls |-> Some(ToolCalls(n, b))] :
                    c \in {None, Some(FinalText)},
                    b \in {x \in batches : AddCount(x) <= free}}

\* ------------------------------------------------------- the client run
LLM == "client_llm"
BP == "client_llm_best_practices"
OPENAI == "client_openai"
Variants == {LLM, BP, OPENAI}

SYSTEM_INSTRUCTIONS ==
    <<"You are a helpful agent that can manage tasks in a task management system.">>
UserPrompt == <<"Create a task, then list all tasks.">>
NoContent == <<"(no content)">>
ModelErrorText == <<"Sorry, there was an error communicating with the model.">>

Message(role, content, tool_calls, tool_call_id, name) ==
    [role |-> role, content |-> content, tool_calls |-> tool_calls,
     tool_call_id |-> tool_call_id, name |-> name]
SystemMessage == Message("system", Some(SYSTEM_INSTRUCTIONS), None, <<>>, "")
UserMessage == Message("user", Some(UserPrompt), None, <<>>, "")
AssistantMessage(m) == Message("assistant", m.content, m.tool_calls, <<>>, "")
\* A tool message that does not carry the call id.
ToolMessage_uncorrelated(id, name, text) ==
    Message("tool", Some(text), None, <<>>, name)
ToolMessage(id, name, text) == Message("tool", Some(text), None, id, name)

NoMessage == [content |-> None, tool_calls |-> None]

\* Python truth of msg.tool_calls and of msg.content.
HasToolCalls(m) == ~m.tool_calls.isNone /\ m.tool_calls.v # <<>>
Truthy(content) == ~content.isNone /\ content.v # <<>>

NoResult == [kind |-> "none", value |-> None, exc |-> ""]
Return(value) == [kind |-> "returned", value |-> value, exc |-> ""]
Raise(exc) == [kind |-> "raised", value |-> None, exc |-> exc]

\* The history the first completion is asked with.
SeedMessages(v) ==
    IF v = OPENAI THEN <<UserMessage>> ELSE <<SystemMessage, UserMessage>>

\* chat() takes the cap as max_tool_loops; client_llm_best_practices and
\* client_openai have one tool phase written into them.
Caps(v) == IF v = LLM THEN 0..MaxToolLoops ELSE {1}

ClientStart ==
    /\ variant \in Variants
    /\ max_tool_loops \in Caps(variant)
    /\ messages = SeedMessages(variant)
    /\ msg = NoMessage
    /\ pc = "AwaitingModel"
    /\ loops = 0
    /\ tcIdx = 0
    /\ tool_results_msgs = <<>>
    /\ modelCalls = 0
    /\ invoked = <<>>
    /\ result = NoResult

Init == ServerStart /\ ClientStart

\* tool_choice of the next completion: the second one of
\* client_llm_best_practices and client_openai forbids tools.
ToolChoice == IF variant # LLM /\ modelCalls >= 1 THEN "none" ELSE "auto"

\* The run ends: it returns a value or an exception leaves it.
Finish(r) ==
    /\ pc' = (IF r.kind = "returned" THEN "Finished" ELSE "Aborted")
    /\ result' = r

\* chat.completions.create raises.
ModelFails ==
    /\ pc = "AwaitingModel"
    /\ modelCalls' = modelCalls + 1
    /\ Finish(IF variant = BP THEN Return(Some(ModelErrorText))
              ELSE Raise("APIError"))
    /\ UNCHANGED <<variant, max_tool_loops, messages, msg, loops, tcIdx,
                   tool_results_msgs, invoked>>
    /\ UNCHANGED serverVars

\* while msg.tool_calls and loops <= max_tool_loops
LoopCondition_late(m) == HasToolCalls(m) /\ loops <= max_tool_loops

\* while msg.tool_calls and loops < max_tool_loops
LoopCondition(m) == HasToolCalls(m) /\ loops < max_tool_loops

\* return msg.content
FinalContent_verbatim(m) == m.content

\* return msg.content or "(no content)"
FinalContent(m) == IF Truthy(m.content) THEN m.content ELSE Some(NoContent)

\* client_llm: append the response; run its tools while the cap allows,
\* else return its text or the placeholder.
LlmResponds(m) ==
    /\ messages' = Append(messages, AssistantMessage(m))
    /\ IF LoopCondition(m)
       THEN /\ loops' = loops + 1
            /\ tool_results_msgs' = <<>>
            /\ tcIdx' = 1
            /\ pc' = "AwaitingToolExecution"
            /\ UNCHANGED result
       ELSE /\ Finish(Return(FinalContent(m)))
            /\ UNCHANGED <<loops, tool_results_msgs, tcIdx>>

\* client_llm_best_practices: after the first response the tools of the
\* response, if any, and then the second completion in either case; the
\* second response's content is returned as it is.
BpResponds(m) ==
    IF modelCalls = 0
    THEN /\ messages' = Append(messages, AssistantMessage(m))
         /\ IF HasToolCalls(m)
            THEN /\ loops' = loops + 1
                 /\ tcIdx' = 1
                 /\ pc' = "AwaitingToolExecution"
            ELSE /\ pc' = "AwaitingModel"
                 /\ UNCHANGED <<loops, tcIdx>>
         /\ UNCHANGED <<result, tool_results_msgs>>
    ELSE /\ Finish(Return(m.content))
         /\ UNCHANGED <<messages, loops, tcIdx, tool_results_msgs>>

\* client_openai: the first response is returned unless it has tool calls;
\* the second response's content is returned as it is.
OpenaiResponds(m) ==
    IF modelCalls = 0
    THEN /\ messages' = Append(messages, AssistantMessage(m))
         /\ IF HasToolCalls(m)
            THEN /\ loops' = loops + 1
                 /\ tcIdx' = 1
                 /\ pc' = "AwaitingToolExecution"
                 /\ UNCHANGED result
            ELSE /\ Finish(Return(m.content))
                 /\ UNCHANGED <<loops, tcIdx>>
         /\ UNCHANGED tool_results_msgs
    ELSE /\ Finish(Return(m.content))
         /\ UNCHANGED <<messages, loops, tcIdx, tool_results_msgs>>

\* chat.completions.create returns a response.
ModelResponds ==
    /\ pc = "AwaitingModel"
    /\ \E m \in Responses(modelCalls, ToolChoice, MaxTasks - uuids) :
        /\ msg' = m
        /\ modelCalls' = modelCalls + 1
        /\ CASE variant = LLM -> LlmResponds(m)
             [] variant = BP -> BpResponds(m)
             [] OTHER -> OpenaiResponds(m)
    /\ UNCHANGED <<variant, max_tool_loops, invoked>>
    /\ UNCHANGED serverVars

\* The request the tool phase is at.
CurrentCall == msg.tool_calls.v[tcIdx]

\* What the client makes of tc.function.arguments: client_llm reads a
\* missing text as "{}" and an unparsable one as {}; the others hand the
\* text to json.loads as it is.
ParsedArguments(v, arguments) ==
    IF v = LLM
    THEN IF arguments.isNone \/ arguments.v = <<>>
         THEN [ok |-> TRUE, val |-> NoArgs, exc |-> ""]
         ELSE [ok |-> TRUE, val |-> json_loads_arguments(arguments.v).val,
               exc |-> ""]
    ELSE IF arguments.isNone
         THEN [ok |-> FALSE, val |-> NoArgs, exc |-> "TypeError"]
    ELSE IF json_loads_arguments(arguments.v).ok
         THEN [ok |-> TRUE, val |-> json_loads_arguments(arguments.v).val,
               exc |-> ""]
    ELSE [ok |-> FALSE, val |-> NoArgs, exc |-> "JSONDecodeError"]

\* json.loads(tool_call.function.arguments) raises in
\* client_llm_best_practices or client_openai, and the exception leaves the run.
ArgumentsRaise ==
    /\ pc = "AwaitingToolExecution"
    /\ ~ParsedArguments(variant, CurrentCall.arguments).ok
    /\ Finish(Raise(ParsedArguments(variant, CurrentCall.arguments).exc))
    /\ UNCHANGED <<variant, max_tool_loops, messages, msg, loops, tcIdx,
                   tool_results_msgs, modelCalls, invoked>>
    /\ UNCHANGED serverVars

\* A client that lets an error result leave the run.
ToolOutput_strict(v, res) ==
    IF res.isError THEN [ok |-> FALSE, text |-> <<>>]
    ELSE [ok |-> TRUE, text |-> first_item_text(res.content)]

\* The text of the tool message for a result, or none when the client cannot
\* read the result: client_openai takes result.content[0].text.
ToolOutput(v, res) ==
    IF v = LLM THEN [ok |-> TRUE, text |-> first_item_text(res.content)]
    ELSE IF v = BP
         THEN [ok |-> TRUE, text |-> extract_text_or_json_as_text(res.content)]
    ELSE IF res.content = <<>> THEN [ok |-> FALSE, text |-> <<>>]
    ELSE [ok |-> TRUE, text |-> res.content[1].text]

\* After the last request of the phase the next completion is asked for;
\* client_llm adds the results of the phase to the history only then.
NextRequest(results) ==
    IF tcIdx < Len(msg.tool_calls.v)
    THEN /\ tcIdx' = tcIdx + 1
         /\ pc' = "AwaitingToolExecution"
         /\ tool_results_msgs' = results
         /\ UNCHANGED messages
    ELSE /\ tcIdx' = 0
         /\ pc' = "AwaitingModel"
         /\ tool_results_msgs' = results
         /\ messages' = messages \o results

\* One request of the phase: call the tool, then keep its result.
ExecuteTool ==
    /\ pc = "AwaitingToolExecution"
    /\ ParsedArguments(variant, CurrentCall.arguments).ok
    /\ \E fails \in 0..retries :
        \E args \in {ParsedArguments(variant, CurrentCall.arguments).val} :
        \E call \in {call_tool(CurrentCall.name, args, STORE, doc, uuids,
                               fails)} :
        \E out \in {ToolOutput(variant, call.result)} :
           /\ Becomes(call.after)
           /\ invoked' = Append(invoked,
                                [id |-> CurrentCall.id,
                                 name |-> CurrentCall.name,
                                 isError |-> call.result.isError,
                                 content |-> call.result.content])
           /\ IF ~out.ok
              THEN /\ Finish(Raise("IndexError"))
                   /\ UNCHANGED <<messages, tcIdx, tool_results_msgs>>
              ELSE /\ UNCHANGED result
                   /\ IF variant = LLM
                      THEN NextRequest(Append(tool_results_msgs,
                               ToolMessage(CurrentCall.id, "", out.text)))
                      ELSE /\ messages' = Append(messages,
                                  ToolMessage(CurrentCall.id,
                                      IF variant = BP THEN CurrentCall.name
                                      ELSE "",
                                      out.text))
                           /\ tcIdx' = (IF tcIdx < Len(msg.tool_calls.v)
                                        THEN tcIdx + 1 ELSE 0)
                           /\ pc' = (IF tcIdx < Len(msg.tool_calls.v)
                                     THEN "AwaitingToolExecution"
                                     ELSE "AwaitingModel")
                           /\ UNCHANGED tool_results_msgs
    /\ UNCHANGED <<variant, max_tool_loops, msg, loops, modelCalls>>

Next ==
    \/ ModelFails
    \/ ModelResponds
    \/ ArgumentsRaise
    \/ ExecuteTool

Spec == Init /\ [][Next]_vars

\* Each await of a run completes: a run that can take a step takes one.
FairSpec == Spec /\ WF_vars(Next)

\* ------------------------------------------- a normaliser on its own
\* The content items a tool result may hold: structured ones, texts, and one
\* of a type the normalisers pass over.
ImageContent == [type |-> "image", text |-> <<>>, json |-> <<>>]
Items ==
    {JsonContent(<<"1">>), JsonContent(<<"{", "}">>),
     TextContent(<<"a">>), TextContent(<<"b", " ", "c">>), ImageContent}

\* The result being received, and the items it holds so far.
Received == invoked[1]

\* call_mcp_tool of client_llm or client_llm_best_practices, from the result
\* of session.call_tool on: the result is received item by item, then the
\* normaliser makes the text that call_mcp_tool returns.
NormalizerInit ==
    /\ STORE = <<>>
    /\ doc = NoBlob
    /\ uuids = 0
    /\ ret = NoCall
    /\ saveFailed = FALSE
    /\ suspended = {}
    /\ peer = NoPeer
    /\ variant \in {LLM, BP}
    /\ max_tool_loops = 0
    /\ messages = <<>>
    /\ msg = None
    /\ pc = "Receiving"
    /\ loops = 0
    /\ tcIdx = 0
    /\ tool_results_msgs = <<>>
    /\ modelCalls = 0
    /\ invoked = <<[id |-> <<>>, name |-> "list_tasks", isError |-> FALSE,
                    content |-> <<>>]>>
    /\ result = NoResult

ReceiveItem ==
    /\ pc = "Receiving"
    /\ Len(Received.content) < MaxItems
    /\ \E item \in Items :
          invoked' = <<[Received EXCEPT !.content = Append(@, item)]>>
    /\ UNCHANGED <<variant, max_tool_loops, messages, msg, pc, loops, tcIdx,
                   tool_results_msgs, modelCalls, result>>
    /\ UNCHANGED serverVars

Normalize ==
    /\ pc = "Receiving"
    /\ pc' = "Normalized"
    /\ result' = Return(Some(ToolOutput(variant, Received).text))
    /\ UNCHANGED <<variant, max_tool_loops, messages, msg, loops, tcIdx,
                   tool_results_msgs, modelCalls, invoked>>
    /\ UNCHANGED serverVars

NormalizerNext == ReceiveItem \/ Normalize

NormalizerSpec == NormalizerInit /\ [][NormalizerNext]_vars

\* ------------------------------------------------------------ properties
\* The last message of the history, and the assistant messages in it.
LastMessage == messages[Len(messages)]
AssistantIndexes == {j \in DOMAIN messages : messages[j].role = "assistant"}
Ended == pc \in {"Finished", "Aborted"}

\* The tool messages the run holds: client_llm keeps those of the phase it is
\* in apart until the phase is over.
Held ==
    IF variant = LLM /\ pc = "AwaitingToolExecution"
    THEN messages \o tool_results_msgs ELSE messages

\* The calls made for the requests of the n-th response.
InvokedFor(n) == SelectSeq(invoked, LAMBDA e : e.id[2] = ToString(n))

\* C1: TaskPilotAgent.chat of client_llm terminates whatever the model does:
\* it makes at most max_tool_loops tool round trips and at most
\* max_tool_loops + 1 model calls, and when every response of the model
\* requested tools it has made exactly max_tool_loops round trips (and
\* max_tool_loops + 1 model calls) when it returns.
C1_ChatTerminatesWithinCap ==
    /\ [](variant = LLM =>
            /\ loops <= max_tool_loops
            /\ modelCalls <= max_tool_loops + 1
            /\ modelCalls <= loops + 1
            /\ (pc = "Finished"
                /\ \A j \in AssistantIndexes : HasToolCalls(messages[j]))
               => (loops = max_tool_loops
                   /\ modelCalls = max_tool_loops + 1))
    /\ (variant = LLM => <>Ended)

\* C1 witness: client_llm with the largest cap returned after a model that
\* requested tools in every response, the last one included.
C1_Witness ==
    /\ variant = LLM
    /\ pc = "Finished"
    /\ max_tool_loops = MaxToolLoops
    /\ loops = max_tool_loops
    /\ modelCalls = max_tool_loops + 1
    /\ \A j \in AssistantIndexes : HasToolCalls(messages[j])

\* C2: a run that returns while its last assistant message still requests
\* tools has used up its cap and returns a non-empty text: the content of that
\* message, or "(no content)" when the message has none.  Every run of
\* client_llm that returns, returns such a text, whatever the model returned.
C2_CapReachedReturnsText ==
    (pc = "Finished"
     /\ (variant = LLM
         \/ (LastMessage.role = "assistant" /\ HasToolCalls(LastMessage))))
    => /\ LastMessage.role = "assistant"
       /\ result.kind = "returned"
       /\ Truthy(result.value)
       /\ result.value = (IF Truthy(LastMessage.content)
                          THEN LastMessage.content ELSE Some(NoContent))
       /\ HasToolCalls(LastMessage) => loops = max_tool_loops

\* C2 witness: the cap was reached after at least one tool phase, the last
\* response requests tools and has no text, and the placeholder is returned.
C2_Witness ==
    /\ pc = "Finished"
    /\ loops = max_tool_loops
    /\ loops >= 1
    /\ HasToolCalls(LastMessage)
    /\ LastMessage.content.isNone
    /\ result.value = Some(NoContent)

\* C3: a tool call that fails does not end the run.  A tool message with the
\* call id of the request and the text of the error is kept for it, the
\* call's step goes on to the next request of the phase, and after the last
\* request of the phase to the next model call.
C3_ToolFailureDoesNotAbort ==
    /\ [](\A i \in DOMAIN invoked :
            invoked[i].isError =>
                \E j \in DOMAIN Held :
                    /\ Held[j].role = "tool"
                    /\ Held[j].tool_call_id = invoked[i].id
                    /\ Held[j].content = Some(invoked[i].content[1].text)
                    /\ Head(invoked[i].content[1].text) = "Error executing tool ")
    /\ [][(Len(invoked') = Len(invoked) + 1
           /\ invoked'[Len(invoked')].isError)
          => /\ pc' # "Aborted"
             /\ pc' = (IF tcIdx < Len(msg.tool_calls.v)
                       THEN "AwaitingToolExecution" ELSE "AwaitingModel")
             /\ tcIdx < Len(msg.tool_calls.v) => tcIdx' = tcIdx + 1]_vars

\* C3 witness: the first request of the first response failed, the second
\* request of that response was run after it, the model was called again and
\* the run returned.
C3_Witness ==
    /\ pc = "Finished"
    /\ modelCalls >= 2
    /\ Len(invoked) >= 2
    /\ invoked[1].isError
    /\ invoked[2].id = CallId(0, 2)

\* C4: when a model call fails the run ends with the message "Sorry, there
\* was an error communicating with the model." as its result.
C4_ModelFailureIsReported ==
    (result.exc = "APIError" \/ result.value = Some(ModelErrorText))
    => (pc = "Finished" /\ result = Return(Some(ModelErrorText)))

\* C5: the requests of a response are called one after the other in the
\* order of the response, and when the next model call is due the history
\* ends with the assistant message followed by one tool message per request,
\* in that order, each with the call id of its request and no other message
\* with that call id.
C5_PhaseInOrder ==
    /\ pc = "AwaitingToolExecution" =>
        /\ Len(InvokedFor(modelCalls - 1)) = tcIdx - 1
        /\ \A i \in 1..(tcIdx - 1) :
            InvokedFor(modelCalls - 1)[i].id = msg.tool_calls.v[i].id
    /\ (pc = "AwaitingModel" /\ HasToolCalls(msg)) =>
        LET k == Len(msg.tool_calls.v)
            n == Len(messages)
        IN /\ n > k
           /\ messages[n - k] = AssistantMessage(msg)
           /\ Len(InvokedFor(modelCalls - 1)) = k
           /\ \A i \in 1..k :
                /\ messages[n - k + i].role = "tool"
                /\ messages[n - k + i].tool_call_id = msg.tool_calls.v[i].id
                /\ InvokedFor(modelCalls - 1)[i].id = msg.tool_calls.v[i].id
                /\ Cardinality({j \in DOMAIN messages :
                       /\ messages[j].role = "tool"
                       /\ messages[j].tool_call_id = msg.tool_calls.v[i].id}) = 1

\* C5 witness: a response with two requests has been worked through and the
\* next model call is due.
C5_Witness ==
    /\ pc = "AwaitingModel"
    /\ HasToolCalls(msg)
    /\ Len(msg.tool_calls.v) >= 2
    /\ LastMessage.role = "tool"
    /\ LastMessage.tool_call_id = msg.tool_calls.v[Len(msg.tool_calls.v)].id

\* C6: when a run has returned, every request of every assistant message of
\* the history has exactly one later tool message with its call id.
C6_EveryRequestAnswered ==
    pc = "Finished" =>
        \A j \in AssistantIndexes :
            HasToolCalls(messages[j]) =>
                \A i \in DOMAIN messages[j].tool_calls.v :
                    Cardinality({k \in DOMAIN messages :
                        /\ k > j
                        /\ messages[k].role = "tool"
                        /\ messages[k].tool_call_id
                               = messages[j].tool_calls.v[i].id}) = 1

\* C7: a response with text and no tool requests ends the run: the step that
\* appends it to the history returns its text.
C7_FinalTextFinishes ==
    [][(/\ pc = "AwaitingModel"
        /\ Len(messages') = Len(messages) + 1
        /\ messages'[Len(messages')].role = "assistant"
        /\ Truthy(messages'[Len(messages')].content)
        /\ ~HasToolCalls(messages'[Len(messages')]))
       => (pc' = "Finished"
           /\ result' = Return(messages'[Len(messages')].content))]_vars

\* C8: at the first model call the history is one system message followed by
\* one user message.
C8_SeededWithSystemAndUser ==
    (pc = "AwaitingModel" /\ modelCalls = 0) =>
        /\ Len(messages) = 2
        /\ messages[1].role = "system"
        /\ messages[2].role = "user"

\* A step in which an invocation reads, updates or saves the store while
\* another one is suspended: a def tool, an add_task that puts its task into
\* the store, or the save of one of two suspended add_task calls.
TouchesStore ==
    \/ CallListTasks
    \/ CallCompleteTask
    \/ CallClearCompleted
    \/ (AddTaskBegin /\ STORE' # STORE)
    \/ (AddTaskResume /\ Cardinality(suspended) >= 2)

\* C11: while an add_task call is between its update of the store and its
\* save, no other invocation reads, updates or saves the store.
C11_MutationsSerialized ==
    [][suspended # {} => ~TouchesStore]_vars

\* Inputs the tools are tried with in every state the server reaches.
TitleCases ==
    Titles \cup {<<" ">>, <<"Buy", " ", "milk">>, <<"Old", " ">>}
SaveCases == {0, retries}

\* t is s without the whitespace at its two ends.
IsBlank(s) == \A i \in DOMAIN s : s[i] = " "
IsTrimOf(t, s) ==
    /\ t # <<>>
    /\ Head(t) # " "
    /\ t[Len(t)] # " "
    /\ \E i \in 0..Len(s) :
        /\ i + Len(t) <= Len(s)
        /\ SubSeq(s, i + 1, i + Len(t)) = t
        /\ \A k \in 1..i : s[k] = " "
        /\ \A k \in (i + Len(t) + 1)..Len(s) : s[k] = " "

\* C12: in every state of the server, add_task with a title that is missing
\* or blank raises an invalid-argument error, calls no save and leaves the
\* store and the blob as they are; with any other title the store gets one
\* more entry, a task with the trimmed title and done = FALSE, and the
\* entries it had stay as they were.
C12_AddTaskChecksTitle ==
    /\ \A a \in {run_tool("add_task", NoArgs, STORE, doc, uuids, 0)} :
        /\ a.ret.status = "raise"
        /\ a.ret.exc = "ValidationError"
        /\ a.STORE = STORE /\ a.doc = doc /\ a.saves = 0
    /\ \A title \in TitleCases, fails \in SaveCases :
       \A a \in {add_task(STORE, doc, uuids, title, None, fails)} :
        IF IsBlank(title)
        THEN /\ a.ret.status = "raise"
             /\ a.ret.exc = "ValueError"
             /\ a.STORE = STORE /\ a.doc = doc /\ a.saves = 0
             /\ a.uuids = uuids
        ELSE /\ Len(a.STORE) = Len(STORE) + 1
             /\ SubSeq(a.STORE, 1, Len(STORE)) = STORE
             /\ a.STORE[Len(a.STORE)].key = a.STORE[Len(a.STORE)].val.id
             /\ IsTrimOf(a.STORE[Len(a.STORE)].val.title, title)
             /\ a.STORE[Len(a.STORE)].val.done = FALSE
             /\ a.ret.status = "ok" =>
                    a.ret.tasks = <<a.STORE[Len(a.STORE)].val>>

\* C12 witness: after a task was added with the title " Record " trimmed to
\* "Record", an add_task with a blank title has raised.
C12_Witness ==
    /\ pc = "NoRun"
    /\ ret.exc = "ValueError"
    /\ ret.msg = <<"Title cannot be empty.">>
    /\ uuids = 1
    /\ uuid4(0) \in DictKeys(STORE)
    /\ DictGet(STORE, uuid4(0)).title = <<"Record">>
    /\ ~DictGet(STORE, uuid4(0)).done

TagCases ==
    TagArgs \cup {Some(<<>>), Some(<<<<" ">>, <<>>>>),
                  Some(<<<<"b">>, <<" ">>, <<"a", " ">>, <<>>, <<"b">>>>)}

\* The k-th of the tags that are not blank, counted from the left.
NonBlankAt(tags) == {i \in DOMAIN tags : ~IsBlank(tags[i])}
KthNonBlank(tags, k) ==
    tags[CHOOSE i \in NonBlankAt(tags) :
            Cardinality({j \in NonBlankAt(tags) : j <= i}) = k]

\* C13: in every state of the server, the task add_task creates has as its
\* tags the given tags that are not blank, unchanged and in the order given
\* (none when no tags are given), whether its save succeeds or every upload
\* fails; when add_task returns, at the first or at the last upload attempt,
\* the blob holds the store with the new task in it.
C13_AddTaskTagsAndSave ==
    /\ \A tags \in TagCases :
       \A a \in {add_task(STORE, doc, uuids, <<" ", "Record", " ">>, tags,
                          retries)} :
       \A new \in {a.STORE[Len(a.STORE)].val} :
        /\ tags.isNone => new.tags = <<>>
        /\ ~tags.isNone =>
            /\ Len(new.tags) = Cardinality(NonBlankAt(tags.v))
            /\ \A k \in DOMAIN new.tags : new.tags[k] = KthNonBlank(tags.v, k)
        /\ a.ret = StorageError
        /\ a.saves = 1
        /\ a.doc = doc
    /\ \A a \in {add_task(STORE, doc, uuids, <<" ", "Record", " ">>, None,
                          retries - 1)} :
        /\ a.ret.status = "ok"
        /\ a.ret.tasks = <<a.STORE[Len(a.STORE)].val>>
        /\ a.ret.tasks[1].tags = <<>>
        /\ a.saves = 1
        /\ a.doc = Blob(json_dumps(a.STORE))
    /\ \A tags \in TagArgs \ {None} :
       \A a \in {add_task(STORE, doc, uuids, <<" ", "Record", " ">>, tags, 0)} :
       \A new \in {a.STORE[Len(a.STORE)].val} :
       \A written \in {json_loads(a.doc.body)} :
        /\ Len(new.tags) = Cardinality(NonBlankAt(tags.v))
        /\ \A k \in DOMAIN new.tags : new.tags[k] = KthNonBlank(tags.v, k)
        /\ a.ret.status = "ok"
        /\ a.ret.tasks = <<new>>
        /\ a.saves = 1
        /\ a.doc.exists
        /\ written.ok
        /\ written.val = a.STORE
        /\ new.id \in DictKeys(written.val)
        /\ DictGet(written.val, new.id) = new

\* C13 witness: add_task was given the tags "course", " ", "" and " mcp", has
\* returned a task with the tags "course" and " mcp", and the blob holds it.
C13_Witness ==
    /\ pc = "NoRun"
    /\ ret.kind = "task"
    /\ ret.tasks[1].tags = <<<<"course">>, <<" ", "mcp">>>>
    /\ ret.tasks[1].done = FALSE
    /\ doc.exists
    /\ json_loads(doc.body).ok
    /\ ret.tasks[1].id \in DictKeys(json_loads(doc.body).val)
    /\ DictGet(json_loads(doc.body).val, ret.tasks[1].id) = ret.tasks[1]

\* How many of the tasks have the title, and how many the id.
TitleCount(tasks, title) ==
    Cardinality({i \in DOMAIN tasks : tasks[i].title = title})
IdCount(tasks, id) == Cardinality({i \in DOMAIN tasks : tasks[i].id = id})
StoredTasks == [i \in DOMAIN STORE |-> STORE[i].val]

\* C14 as claimed: in every state of the server and for every valid title,
\* list_tasks(include_done=true) after add_task(title) holds exactly one task
\* with that title, and its id is not empty and was not in the store before.
C14_ExactlyOneWithTitle ==
    \A title \in {t \in TitleCases : ~IsBlank(t)} :
    \A a \in {add_task(STORE, doc, uuids, title, None, 0)} :
    \A l \in {list_tasks(a.STORE, a.doc, a.uuids, TRUE)} :
        /\ TitleCount(l.ret.tasks, a.ret.tasks[1].title) = 1
        /\ a.ret.tasks[1].id # <<>>
        /\ a.ret.tasks[1].id \notin DictKeys(STORE)

\* C14 amended: in every state of the server and for every valid title,
\* list_tasks(include_done=true) after add_task(title) holds exactly one task
\* with the new id, which has the trimmed title, and one more task with that
\* title than the store held before; the new id is not empty and was not in
\* the store before.  The same holds when add_task's save fails.
C14_OneMoreWithTitle ==
    \A title \in {t \in TitleCases : ~IsBlank(t)}, fails \in SaveCases :
    \A a \in {add_task(STORE, doc, uuids, title, None, fails)} :
    \A l \in {list_tasks(a.STORE, a.doc, a.uuids, TRUE)} :
    \A new \in {a.STORE[Len(a.STORE)].val} :
        /\ l.ret.status = "ok"
        /\ Len(l.ret.tasks) = Len(STORE) + 1
        /\ IdCount(l.ret.tasks, new.id) = 1
        /\ IsTrimOf(new.title, title)
        /\ TitleCount(l.ret.tasks, new.title)
               = TitleCount(StoredTasks, new.title) + 1
        /\ new.id # <<>>
        /\ new.id \notin DictKeys(STORE)
        /\ a.ret.status = "ok" => a.ret.tasks = <<new>>

\* C14 witness: two tasks were added with the same title, and list_tasks has
\* returned both, with different ids.
C14_Witness ==
    /\ pc = "NoRun"
    /\ ret.kind = "tasks"
    /\ uuids = 2
    /\ TitleCount(ret.tasks, <<"Record">>) = 2
    /\ IdCount(ret.tasks, uuid4(0)) = 1
    /\ IdCount(ret.tasks, uuid4(1)) = 1


\* The store with the task of this id marked done and nothing else changed.
MarkedDone(store, id) ==
    [i \in DOMAIN store |->
        IF store[i].key = id
        THEN [key |-> id, val |-> [store[i].val EXCEPT !.done = TRUE]]
        ELSE store[i]]

\* C15: in every state of the server and for every id in the store,
\* complete_task called twice in a row returns the task with done = TRUE both
\* times, the second call raising nothing but the error of its own failed
\* save; the store after the second call is the store after the first, and
\* each call calls save once, which leaves the whole store in the document
\* when an upload succeeds.
C15_CompleteTaskIdempotent ==
    \A id \in DictKeys(STORE) :
    \A marked \in {MarkedDone(STORE, id)} :
    \A saved \in {Blob(json_dumps(marked))} :
    \A f1 \in {0, retries} :
    \A a1 \in {complete_task(STORE, doc, uuids, id, f1)} :
        /\ a1.STORE = marked
        /\ a1.saves = 1
        /\ IF f1 < retries
           THEN /\ a1.ret.status = "ok"
                /\ a1.ret.tasks = <<DictGet(marked, id)>>
                /\ a1.ret.tasks[1].done
                /\ a1.doc = saved
           ELSE a1.ret = StorageError /\ a1.doc = doc
        /\ \A f2 \in {0, retries} :
           \A a2 \in {complete_task(a1.STORE, a1.doc, a1.uuids, id, f2)} :
               /\ a2.STORE = a1.STORE
               /\ a2.saves = 1
               /\ IF f2 < retries
                  THEN /\ a2.ret.status = "ok"
                       /\ a2.ret.tasks = <<DictGet(marked, id)>>
                       /\ a2.ret.tasks[1].done
                       /\ a2.doc = saved
                  ELSE a2.ret = StorageError /\ a2.doc = a1.doc

\* C15 witness: complete_task has returned a task this process added, done,
\* from a store and a document that hold it as done.
C15_Witness ==
    /\ pc = "NoRun"
    /\ ret.kind = "task"
    /\ ret.tasks[1].id = uuid4(0)
    /\ ret.tasks[1].done
    /\ DictGet(STORE, uuid4(0)) = ret.tasks[1]
    /\ doc = Blob(json_dumps(STORE))


\* Ids that no task of the store has: a foreign one, the empty one, the id the
\* next add_task will hand out, and an id of an earlier document once its task
\* is gone.
AbsentIds == {UnknownId, <<>>, uuid4(uuids), OldDone.id} \ DictKeys(STORE)

\* C16: in every state of the server, complete_task with an id that is not in
\* the store raises the not-found error that names the id, leaves the store,
\* the document and the id counter as they were and does not call save,
\* whatever the blob service would have answered.
C16_CompleteUnknownId ==
    \A id \in AbsentIds, fails \in SaveCases :
    \A a \in {complete_task(STORE, doc, uuids, id, fails)} :
        /\ a.ret.status = "raise"
        /\ a.ret.exc = "ValueError"
        /\ a.ret.msg = <<"Task not found: ">> \o id
        /\ a.STORE = STORE
        /\ a.doc = doc
        /\ a.uuids = uuids
        /\ a.saves = 0
        /\ ~a.saveFailed

\* C16 witness: complete_task has refused the unknown id in a process whose
\* store holds tasks and whose document lacks the last change of the store.
C16_Witness ==
    /\ pc = "NoRun"
    /\ ret.status = "raise"
    /\ ret.exc = "ValueError"
    /\ ret.msg = <<"Task not found: ">> \o UnknownId
    /\ STORE # <<>>
    /\ doc # Blob(json_dumps(STORE))


\* The entries of the store whose task is done, and those whose task is not.
DoneAt(store) == {i \in DOMAIN store : store[i].val.done}
OpenEntries(store) == SelectSeq(store, LAMBDA e : ~e.val.done)

\* C17: in every state of the server, clear_completed leaves in the store the
\* entries whose task is not done, as they were and in their order, and no
\* other; it returns the number of tasks that were done (or raises the storage
\* error when it removed some and every upload failed); clear_completed called
\* again right after it returns 0 and leaves the store as it is.
C17_ClearRemovesDone ==
    \A f1 \in SaveCases, f2 \in SaveCases :
    \A a1 \in {clear_completed(STORE, doc, uuids, f1)} :
    \A a2 \in {clear_completed(a1.STORE, a1.doc, a1.uuids, f2)} :
        /\ a1.STORE = OpenEntries(STORE)
        /\ DoneAt(a1.STORE) = {}
        /\ \A i \in DOMAIN STORE :
              ~STORE[i].val.done =>
                  /\ STORE[i].key \in DictKeys(a1.STORE)
                  /\ DictGet(a1.STORE, STORE[i].key) = STORE[i].val
        /\ Len(a1.STORE) = Len(STORE) - Cardinality(DoneAt(STORE))
        /\ IF DoneAt(STORE) = {} \/ f1 < retries
           THEN a1.ret = Returned("count", <<>>, Cardinality(DoneAt(STORE)))
           ELSE a1.ret = StorageError
        /\ a2.ret = Returned("count", <<>>, 0)
        /\ a2.STORE = a1.STORE

\* C17 witness: clear_completed has returned 2, and the store it left holds a
\* task, not done.
C17_Witness ==
    /\ pc = "NoRun"
    /\ ret.kind = "count"
    /\ ret.count = 2
    /\ STORE # <<>>
    /\ DoneAt(STORE) = {}


\* C18: in every state of the server, clear_completed on a store without a
\* done task does not call save and leaves the document as it is, also a
\* document that differs from the store; on a store with a done task it calls
\* save once, which puts the cleared store in the document unless every
\* upload fails.
C18_ClearSavesIfRemoved ==
    \A fails \in SaveCases \cup {retries - 1} :
    \A a \in {clear_completed(STORE, doc, uuids, fails)} :
        IF DoneAt(STORE) = {}
        THEN /\ a.saves = 0
             /\ a.doc = doc
             /\ ~a.saveFailed
             /\ a.ret.status = "ok"
        ELSE /\ a.saves = 1
             /\ IF fails < retries
                THEN /\ a.doc = Blob(json_dumps(OpenEntries(STORE)))
                     /\ ~a.saveFailed
                ELSE /\ a.doc = doc
                     /\ a.saveFailed

\* C18 witness: clear_completed has returned 0 in a process whose store holds
\* tasks and whose document is not the store's: no upload was made.
C18_Witness ==
    /\ pc = "NoRun"
    /\ ret.kind = "count"
    /\ ret.count = 0
    /\ STORE # <<>>
    /\ DoneAt(STORE) = {}
    /\ saveFailed
    /\ doc # Blob(json_dumps(STORE))


\* C19: in every state of the server, list_tasks returns the tasks of the
\* store, those not done only when include_done is false and all of them when
\* it is true, and leaves the store, the document and the id counter as they
\* were without calling save; a task add_task has just put in the store is in
\* list_tasks(include_done=false), and after complete_task of its id it is not,
\* while list_tasks(include_done=true) still has it, done.
C19_ListTasksFilters ==
    /\ \A include_done \in BOOLEAN :
       \A l \in {list_tasks(STORE, doc, uuids, include_done)} :
           /\ l.ret.status = "ok"
           /\ l.ret.kind = "tasks"
           /\ l.STORE = STORE /\ l.doc = doc /\ l.uuids = uuids
           /\ l.saves = 0 /\ ~l.saveFailed
           /\ IF include_done
              THEN l.ret.tasks = StoredTasks
              ELSE /\ Len(l.ret.tasks) = Len(STORE) - Cardinality(DoneAt(STORE))
                   /\ \A i \in DOMAIN STORE :
                         IdCount(l.ret.tasks, STORE[i].key)
                             = (IF STORE[i].val.done THEN 0 ELSE 1)
                   /\ \A j \in DOMAIN l.ret.tasks :
                         /\ ~l.ret.tasks[j].done
                         /\ DictGet(STORE, l.ret.tasks[j].id) = l.ret.tasks[j]
                   /\ \A j, k \in DOMAIN l.ret.tasks :
                         j < k => DictIndex(STORE, l.ret.tasks[j].id)
                                      < DictIndex(STORE, l.ret.tasks[k].id)
    /\ \A f1 \in {0, retries}, f2 \in {0, retries} :
       \A a \in {add_task(STORE, doc, uuids, <<" ", "Record", " ">>, None, f1)} :
       \A id \in {a.STORE[Len(a.STORE)].key} :
       \A c \in {complete_task(a.STORE, a.doc, a.uuids, id, f2)} :
           /\ IdCount(list_tasks(a.STORE, a.doc, a.uuids, FALSE).ret.tasks, id) = 1
           /\ IdCount(list_tasks(c.STORE, c.doc, c.uuids, FALSE).ret.tasks, id) = 0
           /\ \E t \in {list_tasks(c.STORE, c.doc, c.uuids, TRUE).ret.tasks} :
                 /\ IdCount(t, id) = 1
                 /\ \A j \in DOMAIN t : t[j].id = id => t[j].done

\* C19 witness: list_tasks(include_done=false) has returned some tasks of a
\* store in which the first task this process added is done, and that task is
\* not among them.
C19_Witness ==
    /\ pc = "NoRun"
    /\ ret.kind = "tasks"
    /\ ret.tasks # <<>>
    /\ uuid4(0) \in DictKeys(STORE)
    /\ DictGet(STORE, uuid4(0)).done
    /\ IdCount(ret.tasks, uuid4(0)) = 0
    /\ Len(ret.tasks) < Len(STORE)


\* How many requests in a row the blob service may fail: none, some, all the
\* attempts of a call, and more.
FailCases == 0..(retries + 1)
AttemptsFor(fails) == IF fails < retries THEN fails + 1 ELSE retries

\* C20: in every state of the server and however many requests the blob
\* service fails, save and load make at most `retries` attempts; when an
\* attempt succeeds they return at that attempt, with what a call without a
\* failed attempt gives (save the uploaded document, load the content read),
\* and make no more; they raise the storage error when, and only when, each
\* of the `retries` attempts failed, and then the document is as it was.  save
\* is called on the store and load on the document of the state and on a blob
\* that does not exist, which reads as the empty store.
C20_RetriesBounded ==
    /\ \A w0 \in {save(doc, STORE, 0)} :
       \A fails \in FailCases :
       \A w \in {save(doc, STORE, fails)} :
           /\ w.attempts <= retries
           /\ w.attempts = AttemptsFor(fails)
           /\ w.raised = (fails >= retries)
           /\ w.doc = (IF fails < retries THEN w0.doc ELSE doc)
           /\ w0.doc.exists
    /\ \A rd0 \in {load(doc, 0)} :
       \A fails \in FailCases \ {0, 1} :
       \A rd \in {load(doc, fails)} :
           /\ rd0.attempts = 1
           /\ rd0.exc # "HttpResponseError"
           /\ rd.attempts <= retries
           /\ rd.attempts = AttemptsFor(fails)
           /\ (rd.exc = "HttpResponseError") = (fails >= retries)
           /\ fails >= retries => rd.raised
           /\ fails < retries => (rd.raised = rd0.raised /\ rd.val = rd0.val)
    /\ \A fails \in FailCases :
       \A rd \in {load(NoBlob, fails)} :
           /\ rd.attempts = AttemptsFor(fails)
           /\ rd.raised = (fails >= retries)
           /\ (rd.exc = "HttpResponseError") = (fails >= retries)
           /\ fails < retries => rd.val = <<>>

\* C20 witness: a tool call of a process that loaded its store has ended with
\* the storage error, after the last upload attempt of its save failed, and
\* the document lacks the change of the store.
C20_Witness ==
    /\ pc = "NoRun"
    /\ ret = StorageError
    /\ saveFailed
    /\ uuids > 0
    /\ doc.exists
    /\ doc # Blob(json_dumps(STORE))


\* Retry counts a caller may configure.
RetryCounts == 1..(retries + 2)

\* C21 as claimed: in a server process, for every retry count, the waits of a
\* load or save of which every attempt fails grow by one fixed factor greater than one: each wait is
\* longer than the one before it, and the ratio of a wait to the one before it
\* is the same all along.
C21_BackoffIsExponential ==
    pc = "NoRun" =>
        \A n \in RetryCounts :
        \A w \in {sleeps(n, n)} :
            /\ Len(w) = n - 1
            /\ \A k \in 2..Len(w) : w[k] > w[k - 1]
            /\ \A k \in 2..(Len(w) - 1) : w[k + 1] * w[k - 1] = w[k] * w[k]


\* A backing document that exists and holds nothing.
EmptyBlob == Blob(<<>>)

\* C22 as claimed: in a server process of either variant, load of a document
\* that does not exist and load of a document that exists and is empty return
\* the empty mapping and do not raise, the blob service answering at once.
C22_LoadOfNothingIsEmpty ==
    pc = "NoRun" =>
        \A d \in {NoBlob, EmptyBlob} :
            /\ ~load(d, 0).raised
            /\ load(d, 0).val = <<>>
            /\ ~challenge_load(d, 0).raised
            /\ challenge_load(d, 0).val = <<>>


\* A document another writer left: two tasks, the first done and with tags,
\* and the first key written a second time.
ForeignDoc ==
    Blob(<<"{",
           Quote, "k1", Quote, ":", "{",
               Quote, "id", Quote, ":", Quote, "k1", Quote, ",",
               Quote, "title", Quote, ":", Quote, "Draft", Quote, ",",
               Quote, "done", Quote, ":", "false", ",",
               Quote, "tags", Quote, ":", "[", "]", "}", ",",
           Quote, "k2", Quote, ":", "{",
               Quote, "id", Quote, ":", Quote, "k2", Quote, ",",
               Quote, "title", Quote, ":", Quote, "Pay", " ", "rent", Quote, ",",
               Quote, "done", Quote, ":", "false", ",",
               Quote, "tags", Quote, ":", "[", "]", "}", ",",
           Quote, "k1", Quote, ":", "{",
               Quote, "id", Quote, ":", Quote, "k1", Quote, ",",
               Quote, "title", Quote, ":", Quote, "Buy", " ", "milk", Quote, ",",
               Quote, "done", Quote, ":", "true", ",",
               Quote, "tags", Quote, ":", "[", Quote, "x", Quote, ",",
                                          Quote, " ", "y", Quote, "]", "}",
           "}">>)

\* C23: in every state of the server for the document of the state, and in a
\* process that has served no call yet also for a blob that does not exist
\* and for the foreign document: when load accepts the document, save of what
\* load returned leaves a document that exists and
\* that load reads as the same mapping: the same keys in the same order, each
\* with the same id, title, done and tags; a second save of it writes the
\* same bytes.
C23_SaveLoadRoundTrip ==
    \A d \in {doc} \cup (IF ret = NoCall THEN {NoBlob, ForeignDoc} ELSE {}) :
    \A first \in {load(d, 0)} :
        ~first.raised =>
            \A w \in {save(d, first.val, retries - 1)} :
            \A second \in {load(w.doc, 0)} :
                /\ ~w.raised
                /\ w.doc.exists
                /\ ~second.raised
                /\ second.val = first.val
                /\ DictKeys(second.val) = DictKeys(first.val)
                /\ \A k \in DictKeys(first.val) :
                      DictGet(second.val, k) = DictGet(first.val, k)
                /\ save(w.doc, second.val, 0).doc = w.doc

\* C23 witness: the document of a process that added two tasks and completed
\* one is read by load as two or more tasks, one of them done and with tags,
\* and the foreign document is read as its two tasks.
C23_Witness ==
    /\ pc = "NoRun"
    /\ uuids = 2
    /\ doc.exists
    /\ ~load(doc, 0).raised
    /\ Len(load(doc, 0).val) >= 2
    /\ \E i \in DOMAIN load(doc, 0).val :
          /\ load(doc, 0).val[i].val.done
          /\ load(doc, 0).val[i].val.tags # <<>>
          /\ load(doc, 0).val[i].key = uuid4(0)
    /\ Len(load(ForeignDoc, 0).val) = 2


\* The places of the structured items and of the text items of a content, and
\* the items at a set of places, in the order of the places.
JsonAt(content) == {i \in DOMAIN content : content[i].type = "json"}
TextAt(content) == {i \in DOMAIN content : content[i].type = "text"}
KthOf(places, k) ==
    CHOOSE i \in places : Cardinality({j \in places : j <= i}) = k
JsonValues(content) ==
    [k \in 1..Cardinality(JsonAt(content)) |->
        content[KthOf(JsonAt(content), k)].json]
TextValues(content) ==
    [k \in 1..Cardinality(TextAt(content)) |->
        content[KthOf(TextAt(content), k)].text]
Normalized == result.value.v

\* C24: the text client_llm_best_practices makes of a result is, when the
\* result has structured items and no text item, the one item's JSON value or
\* the array of the values in the order of the items; when it has text items
\* and no structured item, the texts joined by newlines in the order of the
\* items; when it has both, the object with the values under "json" and the
\* texts under "text", each in the order of the items.
C24_NormalizerKeepsOrder ==
    (variant = BP /\ pc = "Normalized") =>
        \A c \in {Received.content} :
        \A js \in {JsonValues(c)}, ts \in {TextValues(c)} :
            /\ (js # <<>> /\ ts = <<>> /\ Len(js) = 1) => Normalized = js[1]
            /\ (js # <<>> /\ ts = <<>> /\ Len(js) > 1) =>
                  Normalized = <<"[">> \o Join(<<",">>, js) \o <<"]">>
            /\ (ts # <<>> /\ js = <<>>) => Normalized = Join(<<"\n">>, ts)
            /\ (ts # <<>> /\ js # <<>>) =>
                  Normalized =
                      <<"{", Quote, "json", Quote, ":", "[">>
                      \o Join(<<",">>, js)
                      \o <<"]", ",", Quote, "text", Quote, ":", "[">>
                      \o Join(<<",">>,
                              [k \in DOMAIN ts |-> <<Quote>> \o ts[k] \o <<Quote>>])
                      \o <<"]", "}">>

\* C24 witness: a result with a text item between two different structured
\* items was made into the object with the two values and the text.
C24_Witness ==
    /\ variant = BP
    /\ pc = "Normalized"
    /\ Received.content = <<JsonContent(<<"{", "}">>), TextContent(<<"a">>),
                            JsonContent(<<"1">>)>>
    /\ Normalized = <<"{", Quote, "json", Quote, ":", "[", "{", "}", ",", "1",
                      "]", ",", Quote, "text", Quote, ":", "[", Quote, "a",
                      Quote, "]", "}">>


\* C25: in every state of the server, reading task://{id} returns a text and
\* raises nothing, for the ids of the store and for ids that are not in it;
\* for an id that is not in the store the text is the object with "error":
\* "not found" and that id, for an id of the store it is the object of that
\* task's id, title, done and tags; the store, the document and the id counter
\* are as before and save is not called.
C25_GetTaskNeverFails ==
    \A id \in DictKeys(STORE) \cup AbsentIds :
    \A g \in {get_task(STORE, doc, uuids, id)} :
        /\ g.ret.status = "ok"
        /\ g.ret.kind = "resource"
        /\ g.STORE = STORE /\ g.doc = doc /\ g.uuids = uuids
        /\ g.saves = 0 /\ ~g.saveFailed
        /\ IF id \in DictKeys(STORE)
           THEN \A p \in {ParseTask(g.ret.msg, 1)} :
                    /\ p.ok
                    /\ p.next = Len(g.ret.msg) + 1
                    /\ p.val = DictGet(STORE, id)
           ELSE g.ret.msg =
                    <<"{", Quote, "error", Quote, ":", Quote, "not found",
                      Quote, ",", Quote, "id", Quote, ":", Quote>>
                    \o id \o <<Quote, "}">>

\* C25 witness: task://nonexistent was read in a process whose store holds a
\* task this process added, and the not-found payload came back.
C25_Witness ==
    /\ pc = "NoRun"
    /\ ret.kind = "resource"
    /\ ret.msg = <<"{", Quote, "error", Quote, ":", Quote, "not found", Quote,
                   ",", Quote, "id", Quote, ":", Quote, "nonexistent", Quote,
                   "}">>
    /\ uuid4(0) \in DictKeys(STORE)


\* The ids add_task has given out in this process.
CreatedIds == {uuid4(k) : k \in 0..(uuids - 1)}

\* C26: in every state of the server each task of the store is kept under the
\* key that is its id, and each task add_task created has a title that is not
\* empty and has no whitespace at its ends; and in every step of the server a
\* key that stays in the store keeps a task with the same id, and its title
\* and tags with it.
C26_IdAndTitleKept ==
    /\ [](\A i \in DOMAIN STORE :
            /\ STORE[i].key = STORE[i].val.id
            /\ STORE[i].key \in CreatedIds =>
                  /\ STORE[i].val.title # <<>>
                  /\ IsTrimOf(STORE[i].val.title, STORE[i].val.title))
    /\ [][\A i \in DOMAIN STORE :
            STORE[i].key \in DictKeys(STORE') =>
                /\ DictGet(STORE', STORE[i].key).id = STORE[i].val.id
                /\ DictGet(STORE', STORE[i].key).title = STORE[i].val.title
                /\ DictGet(STORE', STORE[i].key).tags = STORE[i].val.tags]_vars

\* C26 witness: of two tasks this process added the first was completed and
\* cleared; the second is in the store under its id, with its title.
C26_Witness ==
    /\ pc = "NoRun"
    /\ uuids = 2
    /\ ret.kind = "count"
    /\ ret.count = 1
    /\ uuid4(0) \notin DictKeys(STORE)
    /\ uuid4(1) \in DictKeys(STORE)
    /\ DictGet(STORE, uuid4(1)).id = uuid4(1)
    /\ DictGet(STORE, uuid4(1)).title = <<"Record">>


\* C27 as claimed: in every state of the server, the tool call bulk_import
\* with the lines "A", "", "  ", "B" returns the count 2, leaves the store
\* with two more tasks, titled "A" and "B", and saves once.  The server looks
\* the tool up by its name before it reads the arguments of the request.
C27_BulkImportCreatesTasks ==
    \A a \in {run_tool("bulk_import", NoArgs, STORE, doc, uuids, 0)} :
        /\ a.ret = Returned("count", <<>>, 2)
        /\ Len(a.STORE) = Len(STORE) + 2
        /\ a.STORE[Len(STORE) + 1].val.title = <<"A">>
        /\ a.STORE[Len(STORE) + 2].val.title = <<"B">>
        /\ a.saves = 1


\* The text of a structured or text item, and whether the texts of the items
\* from the k-th on occur in the text s one after the other, from place p on.
ItemText(c) == IF c.type = "json" THEN c.json ELSE c.text
RECURSIVE IncludesFrom(_, _, _, _)
IncludesFrom(items, k, s, p) ==
    IF k > Len(items) THEN TRUE
    ELSE \E q \in p..(Len(s) - Len(ItemText(items[k])) + 1) :
            /\ SubSeq(s, q, q + Len(ItemText(items[k])) - 1)
                   = ItemText(items[k])
            /\ IncludesFrom(items, k + 1, s, q + Len(ItemText(items[k])))
IncludesAll(content, s) ==
    IncludesFrom(SelectSeq(content, LAMBDA c : c.type \in {"json", "text"}),
                 1, s, 1)

\* C28 as claimed: in a run of client_llm, the tool message kept for a call
\* holds the text of every structured and text item of the call's result, in
\* the order of the items.
C28_NoItemDropped ==
    variant = LLM =>
        \A i \in DOMAIN invoked, j \in DOMAIN Held :
            (Held[j].role = "tool" /\ Held[j].tool_call_id = invoked[i].id)
                => IncludesAll(invoked[i].content, Held[j].content.v)


\* The text is the object that opens with the member "json".
IsEnvelope(s) ==
    /\ Len(s) >= 5
    /\ SubSeq(s, 1, 5) = <<"{", Quote, "json", Quote, ":">>

\* C29 as claimed: the text client_llm_best_practices makes of a result is the
\* {json, text} object when, and only when, the result has a structured item
\* and a text item.
C29_EnvelopeOnlyWhenMixed ==
    (variant = BP /\ pc = "Normalized") =>
        (IsEnvelope(Normalized)
            <=> (JsonAt(Received.content) # {} /\ TextAt(Received.content) # {}))


\* The argument text of a tool request is missing or is not JSON.
BadArguments(arguments) ==
    arguments.isNone \/ ~json_loads_arguments(arguments.v).ok

\* C30 as claimed: in a run of client_llm or client_llm_best_practices, the
\* step taken for a tool request whose argument text is missing or is not
\* JSON does not end the run: after it the run holds a tool message with the
\* call id of the request, and it is at the next request of the phase or at
\* the next model call.
C30_BadArgumentsRecovered ==
    [][(/\ variant \in {LLM, BP}
        /\ pc = "AwaitingToolExecution"
        /\ BadArguments(CurrentCall.arguments))
       => /\ pc' \in {"AwaitingToolExecution", "AwaitingModel"}
          /\ \E j \in DOMAIN Held' :
                /\ Held'[j].role = "tool"
                /\ Held'[j].tool_call_id = CurrentCall.id]_vars


\* C31: with two server processes on one blob, every step that changes the
\* blob leaves it holding json.dumps of the whole store of the process that
\* took the step (the one whose store the step changed; either one if the
\* step changed no store), and every task that only the other process holds
\* is absent from what load reads from the blob then; and in every state
\* where both run and no save has failed, load reads from the blob the store
\* of one of the two processes.
C31_LastWriterWins ==
    /\ [][doc' # doc =>
            /\ doc'.exists
            /\ STORE' # STORE =>
                  /\ doc'.body = json_dumps(STORE')
                  /\ \A k \in DictKeys(peer.STORE) \ DictKeys(STORE') :
                        k \notin DictKeys(load(doc', 0).val)
            /\ peer' # peer =>
                  /\ doc'.body = json_dumps(peer'.STORE)
                  /\ \A k \in DictKeys(STORE) \ DictKeys(peer'.STORE) :
                        k \notin DictKeys(load(doc', 0).val)
            /\ doc'.body \in {json_dumps(STORE'), json_dumps(peer'.STORE)}]_vars
    /\ []((peer.running /\ ~saveFailed) =>
            \A now \in {load(doc, 0)} :
                /\ ~now.raised
                /\ now.val \in {STORE, peer.STORE})

\* C31 witness: the second process started, then the first added a task and
\* saved, then the second added a task and saved: the blob is the second
\* process's store, and the first one's task is not in it.
C31_Witness ==
    /\ peer.running
    /\ ~saveFailed
    /\ uuids = 2
    /\ uuid4(0) \in DictKeys(STORE) \ DictKeys(peer.STORE)
    /\ uuid4(1) \in DictKeys(peer.STORE) \ DictKeys(STORE)
    /\ doc.body = json_dumps(peer.STORE)
    /\ uuid4(0) \notin DictKeys(load(doc, 0).val)
    /\ uuid4(1) \in DictKeys(load(doc, 0).val)


\* list_tasks called with no include_done argument at the concepts server
\* and at the challenge server, in the state the process is in.
ConceptsDefaultList == run_tool("list_tasks", NoArgs, STORE, doc, uuids, 0).ret
ChallengeDefaultList ==
    challenge_list_tasks(STORE, doc, uuids, NoArgs.include_done).ret

\* C32 as stated: whenever the store holds a done task, list_tasks without
\* include_done returns different lists at the two servers, one with the done
\* tasks and one without them.
C32_DefaultsDiffer ==
    (\E i \in DOMAIN STORE : STORE[i].val.done) =>
        /\ ConceptsDefaultList # ChallengeDefaultList
        /\ \/ /\ ConceptsDefaultList.tasks = StoredTasks
              /\ ChallengeDefaultList.tasks = SelectSeq(StoredTasks,
                                                        LAMBDA t : ~t.done)
           \/ /\ ChallengeDefaultList.tasks = StoredTasks
              /\ ConceptsDefaultList.tasks = SelectSeq(StoredTasks,
                                                       LAMBDA t : ~t.done)

\* C32 amended: in every state of the server, list_tasks without include_done
\* returns the same list at the two servers: every task of the store, the
\* done ones included, in the order of the store; it is what
\* include_done = true returns at either.
C32_DefaultsAgree ==
    pc = "NoRun" =>
        /\ ConceptsDefaultList.status = "ok"
        /\ ConceptsDefaultList.tasks = StoredTasks
        /\ ChallengeDefaultList.status = "ok"
        /\ ChallengeDefaultList.tasks = StoredTasks
        /\ ConceptsDefaultList = ChallengeDefaultList
        /\ ConceptsDefaultList = list_tasks(STORE, doc, uuids, TRUE).ret
        /\ ChallengeDefaultList =
               challenge_list_tasks(STORE, doc, uuids, Given(TRUE)).ret

\* C32 witness: the process completed a task it had added and holds an open
\* one too; list_tasks without the argument returns both at either server,
\* and include_done = false would leave the done one out.
C32_Witness ==
    /\ pc = "NoRun"
    /\ uuids = 2
    /\ uuid4(0) \in DictKeys(STORE)
    /\ DictGet(STORE, uuid4(0)).done
    /\ uuid4(1) \in DictKeys(STORE)
    /\ ~DictGet(STORE, uuid4(1)).done
    /\ IdCount(ConceptsDefaultList.tasks, uuid4(0)) = 1
    /\ IdCount(ChallengeDefaultList.tasks, uuid4(0)) = 1
    /\ IdCount(challenge_list_tasks(STORE, doc, uuids, Given(FALSE)).ret.tasks,
               uuid4(0)) = 0


\* C33: in every state of the server, for every id of the store, whether the
\* save succeeds or fails: complete_task leaves a store with the same keys in
\* the same places; the entry of that id has the id, title and tags it had and
\* done = true; every other entry is what it was; and no id is used up.
C33_CompleteTaskChangesOnlyDone ==
    pc = "NoRun" =>
        \A task_id \in DictKeys(STORE), fails \in {0, retries} :
        \A a \in {complete_task(STORE, doc, uuids, task_id, fails)} :
            /\ Len(a.STORE) = Len(STORE)
            /\ a.uuids = uuids
            /\ \A i \in DOMAIN STORE :
                  /\ a.STORE[i].key = STORE[i].key
                  /\ IF STORE[i].key = task_id
                     THEN /\ a.STORE[i].val.id = STORE[i].val.id
                          /\ a.STORE[i].val.title = STORE[i].val.title
                          /\ a.STORE[i].val.tags = STORE[i].val.tags
                          /\ a.STORE[i].val.done
                          /\ DOMAIN a.STORE[i].val = DOMAIN STORE[i].val
                     ELSE a.STORE[i] = STORE[i]

\* C33 witness: the process added two tasks, the first with tags, and the
\* last call completed the first: it is done and has its title and tags, and
\* the second is still open.
C33_Witness ==
    /\ pc = "NoRun"
    /\ uuids = 2
    /\ ret.kind = "task"
    /\ ret.tasks[1].id = uuid4(0)
    /\ uuid4(0) \in DictKeys(STORE)
    /\ DictGet(STORE, uuid4(0)).done
    /\ DictGet(STORE, uuid4(0)).title = <<"Record">>
    /\ DictGet(STORE, uuid4(0)).tags # <<>>
    /\ uuid4(1) \in DictKeys(STORE)
    /\ ~DictGet(STORE, uuid4(1)).done


\* The requests of the history that no tool invocation was made for.
Unexecuted ==
    {<<j, i>> \in AssistantIndexes \X (1..MaxCalls) :
        /\ HasToolCalls(messages[j])
        /\ i \in DOMAIN messages[j].tool_calls.v
        /\ \A k \in DOMAIN invoked :
              invoked[k].id # messages[j].tool_calls.v[i].id}

\* C34: a run of client_llm_best_practices or client_openai has at most one
\* tool phase and at most two model calls; a model call after the first is
\* made with tool_choice "none" and its response requests no tool; when the
\* run has ended, every tool request of its history was executed; and every
\* run ends.
C34_OnePhaseThenAnswer ==
    /\ [](variant \in {BP, OPENAI} =>
            /\ loops <= 1
            /\ modelCalls <= 2
            /\ (pc = "AwaitingModel" /\ modelCalls >= 1) => ToolChoice = "none"
            /\ Ended => Unexecuted = {})
    /\ [][(variant \in {BP, OPENAI} /\ modelCalls' = 2 /\ msg' # msg)
            => ~HasToolCalls(msg')]_vars
    /\ (variant \in {BP, OPENAI} => <>Ended)

\* What load() reads back from the blob as it is now.
Document == load(doc, 0)

\* C9: in a single server process, as long as every save() has succeeded,
\* the backing document equals the whole in-memory store after any sequence
\* of add_task, complete_task and clear_completed calls: it reads back as the
\* store, and once written its body is the serialisation of the whole store.
C9_DocumentEqualsStore ==
    ~saveFailed =>
        /\ ~Document.raised
        /\ Document.val = STORE
        /\ (doc.exists => doc.body = json_dumps(STORE))

\* C9 witness: two tasks were added, one was completed and clear_completed
\* has just removed it, every save succeeding.
C9_Witness ==
    /\ pc = "NoRun"
    /\ ~saveFailed
    /\ uuids = 2
    /\ ret.kind = "count"
    /\ ret.count >= 1
    /\ STORE # <<>>

\* C10: when save() raises inside add_task, complete_task or clear_completed,
\* the in-memory store is the same as before the failed call.
C10_FailedSaveLeavesStore ==
    [][(ret'.status = "raise" /\ ret'.exc = "HttpResponseError")
          => STORE' = STORE]_vars

====
